---- MODULE Spec2Model ----
(***************************************************************************)
(* Order / position lifecycle of the trading monitor: the Decision         *)
(* Executor (trading/order_executor.py), the Order Reconciler              *)
(* (trading/order_monitor.py) and the Position Reconciler                  *)
(* (trading/position_monitor.py) over the shared store                     *)
(* (shared/database.py) and the broker.                                    *)
(*                                                                         *)
(* One action is one run() of a job: its work list is processed in order,  *)
(* one item (decision, order, position) at a time.  Runs are taken one at  *)
(* a time: two jobs' statements are not interleaved, and the broker moves  *)
(* between runs.  Within one item every statement that can raise (a broker *)
(* call, a store write) is numbered in execution order; failAt names the   *)
(* statement that raises (NULL: none).  Each store write commits on its    *)
(* own, except INSERT ... RETURNING, which execute_query leaves            *)
(* uncommitted until the next write commits or rolls back.                 *)
(***************************************************************************)
EXTENDS Integers, Sequences, FiniteSets, TLC

\* ------------------------------------------------------------- bounds
MaxDecisions == 2
MaxBrokerOrders == 3

MaxFaults == 1
HistCap == 2

\* ---------------------------------------------------------- constants
NULL == 0

\* Inputs: the values upstream decisions, fills and quotes are drawn from.
Symbols == {"AAPL"}

VARIABLES
    decisions,      \* analysis_decision rows, by Analysis_Id
    trades,         \* trade_journal rows, by id
    orders,         \* order_execution rows, by id
    positions,      \* position_tracking rows (a sequence; rows are deleted)
    posSerial,      \* position_tracking's id sequence
    alpaca,         \* the broker's orders, by broker order id
    held,           \* symbols with an open position at the broker
    flagHist,       \* per decision: committed writes of the executed flag
    audit,          \* what the handlers did: the entry fills handled to the end,
                    \* which job closed each trade, the cancel calls made for
                    \* decisions, the exit fills handled to the end, the closes
                    \* written by the Position Reconciler
    faults,         \* injected faults so far (failed statements)
    calc            \* a computation on its own: the money arithmetic (inputs and
                    \* what is stored); the scheduler's clock and the jobs it
                    \* starts; the statement each of two concurrent jobs is at,
                    \* with what it has read

vars == <<decisions, trades, orders, positions, posSerial, alpaca, held,
          flagHist, audit, faults, calc>>

\* ------------------------------------------------------------ helpers
Max(a, b) == IF a >= b THEN a ELSE b
Min(a, b) == IF a <= b THEN a ELSE b

RECURSIVE SeqOfSet(_)
SeqOfSet(S) ==
    IF S = {} THEN <<>>
    ELSE LET m == CHOOSE x \in S : \A y \in S : x <= y
         IN <<m>> \o SeqOfSet(S \ {m})

Indices(s) == 1..Len(s)

\* The statement about to run is the one that raises.
Fails(w) == w.n + 1 = w.failAt

\* The statement ran: count it and log it.
Done(w, kind, id) ==
    [w EXCEPT !.n = @ + 1, !.ev = Append(@, <<kind, id>>)]

\* The statement raised.
Raise(w, kind, id) ==
    [w EXCEPT !.n = @ + 1, !.exc = TRUE, !.ev = Append(@, <<kind, id>>)]

\* An exception caught and logged by the enclosing try: execution goes on.
Swallow(w) == [w EXCEPT !.exc = FALSE]

Protective == {"STOP_LOSS", "TAKE_PROFIT"}

\* ------------------------------------------------------------- broker
OpenStatuses == {"new", "partially_filled"}

BrokerOpen(brk, id) == id \in Indices(brk) /\ brk[id].status \in OpenStatuses

\* submit_order: a new broker order, or an exception.
SubmitOrder(w, req) ==
    IF Fails(w) \/ Len(w.brk) >= MaxBrokerOrders
    THEN Raise(w, "submit_fail", NULL)
    ELSE [Done(w, "submit", Len(w.brk) + 1) EXCEPT
             !.brk = Append(@, [status |-> "new",
                                symbol |-> req.symbol,
                                side |-> req.side,
                                qty |-> req.qty,
                                limit_price |-> req.limit_price,
                                stop_price |-> req.stop_price,
                                filled_qty |-> 0,
                                filled_avg_price |-> NULL,
                                filled_at |-> NULL,
                                role |-> req.role,
                                decision |-> req.decision,
                                trade |-> req.trade,
                                by |-> w.job])]

\* cancel_order_by_id: cancels an open order; raises for an order that is no
\* longer open (filled, already cancelled) and on any transient failure.  A
\* call made for a decision is recorded with it.
CancelOrder(w, id) ==
    LET ok == ~Fails(w) /\ BrokerOpen(w.brk, id)
        w1 == IF w.who = NULL THEN w
              ELSE [w EXCEPT !.aud.cancels = @ \cup {<<id, w.who, ok>>}]
    IN
    IF ok THEN [Done(w1, "cancel", id) EXCEPT !.brk[id].status = "canceled"]
    ELSE Raise(w1, "cancel_fail", id)

\* -------------------------------------------------- Decision Executor

\* A committed write of analysis_decision.executed, recorded in the history.
NoteFlag(h, old, new) ==
    [h EXCEPT !.ups = IF ~old /\ new THEN Min(@ + 1, HistCap) ELSE @,
              !.downs = IF old /\ ~new THEN Min(@ + 1, HistCap) ELSE @]

\* UPDATE analysis_decision SET executed = v [, back-references] WHERE Analysis_Id = d
UpdateDecision(w, d, v, order_id, trade_id) ==
    IF Fails(w) THEN Raise(w, "w_fail", d)
    ELSE [Done(w, "w_decision", d) EXCEPT
             !.dec[d].executed = v,
             !.dec[d].existing_order_id =
                 IF order_id = NULL THEN @ ELSE order_id,
             !.dec[d].existing_trade_journal_id =
                 IF trade_id = NULL THEN @ ELSE trade_id,
             !.hist[d] = NoteFlag(@, w.dec[d].executed, v)]

\* A validation that leaves the stop price out.
RequiredFieldsButStop(dec) ==
    dec.qty # NULL /\ dec.limit_price # NULL

\* if not all([qty, limit_price, stop_price])
RequiredFieldsPresent(dec) ==
    dec.qty # NULL /\ dec.limit_price # NULL /\ dec.stop_price # NULL

NewTradeRow(d, dec) ==
    [status |-> "ORDERED",
     symbol |-> dec.symbol,
     trade_style |-> dec.strategy,
     initial_analysis_id |-> d,
     planned_entry |-> dec.limit_price,
     planned_stop_loss |-> dec.stop_price,
     planned_take_profit |-> dec.take_profit,
     planned_qty |-> Max(1, dec.qty),
     actual_entry |-> NULL,
     actual_qty |-> NULL,
     exit_date |-> NULL,
     exit_price |-> NULL,
     actual_pnl |-> NULL,
     exit_reason |-> "NONE"]

EntryOrderRow(d, dec, trade_id, broker_id) ==
    [trade_journal_id |-> trade_id,
     analysis_decision_id |-> d,
     alpaca_order_id |-> broker_id,
     order_type |-> "ENTRY",
     side |-> dec.side,
     order_status |-> "pending",
     qty |-> Max(1, dec.qty),
     limit_price |-> dec.limit_price,
     stop_price |-> NULL,
     filled_qty |-> NULL,
     filled_avg_price |-> NULL,
     filled_at |-> NULL]

\* handle_new_trade: validate, submit the entry order, INSERT trade_journal
\* (RETURNING id: not yet committed), INSERT order_execution (commits both, or
\* rolls both back), UPDATE analysis_decision.
HandleNewTrade(w, d) ==
    LET dec == w.dec[d] IN
    IF ~RequiredFieldsPresent(dec) THEN [w EXCEPT !.ev = Append(@, <<"invalid", d>>)]
    ELSE
    LET w1 == SubmitOrder(w, [symbol |-> dec.symbol, side |-> dec.side,
                              qty |-> dec.qty, limit_price |-> dec.limit_price,
                              stop_price |-> NULL, role |-> "ENTRY",
                              decision |-> d, trade |-> NULL])
        broker_id == Len(w1.brk)
    IN
    IF w1.exc THEN w1
    ELSE IF Fails(w1) THEN Raise(w1, "w_fail", d)
    ELSE
    LET trade_id == Len(w1.trd) + 1
        w2 == [Done(w1, "w_trade", trade_id) EXCEPT
                  !.trd = Append(@, NewTradeRow(d, dec))]
    IN
    IF Fails(w2) THEN [Raise(w2, "w_fail", d) EXCEPT !.trd = w1.trd, !.ev = Append(w1.ev, <<"w_fail", d>>)]
    ELSE
    LET w3 == [Done(w2, "w_order", Len(w2.ord) + 1) EXCEPT
                  !.ord = Append(@, EntryOrderRow(d, dec, trade_id, broker_id))]
    IN UpdateDecision(w3, d, TRUE, broker_id, trade_id)

\* The UPDATE writing the broker's spelling of the status.
MarkOrderCanceledAsBroker(w, broker_id) ==
    IF Fails(w) THEN Raise(w, "w_fail", broker_id)
    ELSE [Done(w, "w_order_cancelled", broker_id) EXCEPT
             !.ord = [i \in Indices(w.ord) |->
                         IF w.ord[i].alpaca_order_id = broker_id
                         THEN [w.ord[i] EXCEPT !.order_status = "canceled"]
                         ELSE w.ord[i]]]

\* UPDATE order_execution SET order_status = 'cancelled' WHERE alpaca_order_id = id
MarkOrderCancelled(w, broker_id) ==
    IF Fails(w) THEN Raise(w, "w_fail", broker_id)
    ELSE [Done(w, "w_order_cancelled", broker_id) EXCEPT
             !.ord = [i \in Indices(w.ord) |->
                         IF w.ord[i].alpaca_order_id = broker_id
                         THEN [w.ord[i] EXCEPT !.order_status = "cancelled"]
                         ELSE w.ord[i]]]

\* UPDATE trade_journal SET status = 'CANCELLED', exit_date, exit_reason WHERE id = t
\* (handle_cancel: no condition on the trade's current status)
CancelTradeRow(w, t) ==
    IF Fails(w) THEN Raise(w, "w_fail", t)
    ELSE IF t \notin Indices(w.trd) THEN Done(w, "w_trade", t)
    ELSE [Done(w, "w_trade", t) EXCEPT
             !.trd[t].status = "CANCELLED",
             !.trd[t].exit_date = 1,
             !.trd[t].exit_reason = "CANCELLED"]

\* A handle_cancel that returns at once, the decision left as it is.
HandleCancelLeavingPending(w, d) ==
    [w EXCEPT !.ev = Append(@, <<"skip", d>>)]

\* handle_cancel
HandleCancel(w, d) ==
    LET order_id == w.dec[d].existing_order_id
        trade_id == w.dec[d].existing_trade_journal_id
    IN
    IF order_id = NULL THEN UpdateDecision(w, d, TRUE, NULL, NULL)
    ELSE
    LET w1 == CancelOrder(w, order_id) IN
    IF w1.exc THEN w1
    ELSE
    LET w2 == MarkOrderCancelled(w1, order_id) IN
    IF w2.exc THEN w2
    ELSE
    LET w3 == IF trade_id # NULL THEN CancelTradeRow(w2, trade_id) ELSE w2 IN
    IF w3.exc THEN w3
    ELSE UpdateDecision(w3, d, TRUE, NULL, NULL)

\* An amend that places the new order and leaves the old one alone.
HandleAmendWithoutCancel(w, d) ==
    HandleNewTrade(w, d)

\* handle_amend: handle_cancel, reset executed to false, handle_new_trade.
HandleAmend(w, d) ==
    LET w1 == HandleCancel(w, d) IN
    IF w1.exc THEN w1
    ELSE
    LET w2 == UpdateDecision(w1, d, FALSE, NULL, NULL) IN
    IF w2.exc THEN w2
    ELSE
    HandleNewTrade(w2, d)

\* A guard that marks the decision executed when its handler raised.
ProcessDecisionMarkingFailed(w, d) ==
    LET a == w.dec[d].action
        r == IF a = "NEW_TRADE" THEN HandleNewTrade(w, d)
             ELSE IF a = "CANCEL" THEN HandleCancel(w, d)
             ELSE HandleAmend(w, d)
    IN
    IF r.exc THEN [Swallow(r) EXCEPT !.dec[d].executed = TRUE] ELSE r

\* process_decision: dispatch on primary_action; any exception is caught here.
ProcessDecision(w, d) ==
    LET a == w.dec[d].action IN
    Swallow(IF a = "NEW_TRADE" THEN HandleNewTrade(w, d)
            ELSE IF a = "CANCEL" THEN HandleCancel(w, d)
            ELSE IF a = "AMEND" THEN HandleAmend(w, d)
            ELSE [w EXCEPT !.ev = Append(@, <<"unknown", d>>)])

\* The work-list query without its executed = false condition.
EligibleIgnoringExecuted(dec) ==
    /\ dec.approved
    /\ dec.action \in {"NEW_TRADE", "CANCEL", "AMEND"}

\* The work-list query without its primary_action condition.
EligibleAnyAction(dec) ==
    /\ ~dec.executed
    /\ dec.approved

\* run(): WHERE executed = false AND "Approve" = true AND primary_action IN (...)
Eligible(dec) ==
    /\ ~dec.executed
    /\ dec.approved
    /\ dec.action \in {"NEW_TRADE", "CANCEL", "AMEND"}

\* --------------------------------------------------- Order Reconciler
\* A status map that takes a partial fill for a fill.
StatusMapPartialAsFilled(status) ==
    CASE status \in {"new", "accepted", "pending_new"} -> "pending"
      [] status \in {"filled", "partially_filled"} -> "filled"
      [] status \in {"canceled", "rejected", "expired"} -> "cancelled"
      [] OTHER -> status

\* status_map.get(alpaca_order.status, alpaca_order.status)
StatusMap(status) ==
    CASE status \in {"new", "accepted", "pending_new"} -> "pending"
      [] status = "filled" -> "filled"
      [] status = "partially_filled" -> "partially_filled"
      [] status \in {"canceled", "rejected", "expired"} -> "cancelled"
      [] OTHER -> status

\* The work-list query with 'filled' among its statuses.
PolledStatusesWithFilled ==
    {"pending", "partially_filled", "new", "accepted", "expired", "cancelled", "rejected",
     "filled"}

\* run(): WHERE order_status IN (...)
PolledStatuses ==
    {"pending", "partially_filled", "new", "accepted", "expired", "cancelled", "rejected"}

ProtectiveOrderRow(trade_id, broker_id, type, qty, price) ==
    [trade_journal_id |-> trade_id,
     analysis_decision_id |-> NULL,
     alpaca_order_id |-> broker_id,
     order_type |-> type,
     side |-> "sell",
     order_status |-> "pending",
     qty |-> qty,
     limit_price |-> IF type = "TAKE_PROFIT" THEN price ELSE NULL,
     stop_price |-> IF type = "STOP_LOSS" THEN price ELSE NULL,
     filled_qty |-> NULL,
     filled_avg_price |-> NULL,
     filled_at |-> NULL]

\* UPDATE position_tracking SET <field> = broker_id WHERE trade_journal_id = t
LinkPosition(w, trade_id, type, broker_id) ==
    IF Fails(w) THEN Raise(w, "w_fail", trade_id)
    ELSE [Done(w, "w_position", trade_id) EXCEPT
             !.pos = [i \in Indices(w.pos) |->
                        IF w.pos[i].trade_journal_id # trade_id THEN w.pos[i]
                        ELSE IF type = "STOP_LOSS"
                        THEN [w.pos[i] EXCEPT !.stop_loss_order_id = broker_id]
                        ELSE [w.pos[i] EXCEPT !.take_profit_order_id = broker_id]]]

\* place_stop_loss / place_take_profit: submit a SELL order for qty at the
\* trade's planned price, INSERT its order_execution row, link it to the position.
PlaceProtective(w, trade_id, trade, type, qty) ==
    LET price == IF type = "STOP_LOSS" THEN trade.planned_stop_loss
                 ELSE trade.planned_take_profit
        w1 == SubmitOrder(w, [symbol |-> trade.symbol, side |-> "sell", qty |-> qty,
                              limit_price |-> IF type = "TAKE_PROFIT" THEN price ELSE NULL,
                              stop_price |-> IF type = "STOP_LOSS" THEN price ELSE NULL,
                              role |-> type, decision |-> NULL, trade |-> trade_id])
        broker_id == Len(w1.brk)
    IN
    IF w1.exc THEN w1
    ELSE IF Fails(w1) THEN Raise(w1, "w_fail", trade_id)
    ELSE
    LET w2 == [Done(w1, "w_order", Len(w1.ord) + 1) EXCEPT
                  !.ord = Append(@, ProtectiveOrderRow(trade_id, broker_id, type, qty, price))]
    IN LinkPosition(w2, trade_id, type, broker_id)

PlaceStopLoss(w, trade_id, trade, qty) ==
    PlaceProtective(w, trade_id, trade, "STOP_LOSS", qty)

\* A take-profit recorded with the stop-loss's order type.
PlaceTakeProfitAsStopLoss(w, trade_id, trade, qty) ==
    LET w1 == PlaceProtective(w, trade_id, trade, "TAKE_PROFIT", qty) IN
    IF w1.exc THEN w1
    ELSE [w1 EXCEPT !.ord[Len(w1.ord)].order_type = "STOP_LOSS"]

PlaceTakeProfit(w, trade_id, trade, qty) ==
    PlaceProtective(w, trade_id, trade, "TAKE_PROFIT", qty)

\* The take-profit condition without its trade_style test.
PlansTakeProfitAnyStyle(trade) ==
    trade.planned_take_profit # NULL

\* if trade['trade_style'] == 'SWING' and trade['planned_take_profit']
PlansTakeProfit(trade) ==
    trade.trade_style = "SWING" /\ trade.planned_take_profit # NULL

\* A cost basis that leaves the quantity out.
PositionRowCostPerShare(id, trade_id, symbol, qty_db, qty_actual, price) ==
    [id |-> id,
     trade_journal_id |-> trade_id,
     symbol |-> symbol,
     qty |-> qty_db,
     avg_entry_price |-> price,
     current_price |-> price,
     market_value |-> price,
     cost_basis |-> price,
     unrealized_pnl |-> 0,
     stop_loss_order_id |-> NULL,
     take_profit_order_id |-> NULL]

PositionRow(id, trade_id, symbol, qty_db, qty_actual, price) ==
    [id |-> id,
     trade_journal_id |-> trade_id,
     symbol |-> symbol,
     qty |-> qty_db,
     avg_entry_price |-> price,
     current_price |-> price,
     market_value |-> price * qty_actual,
     cost_basis |-> price * qty_actual,
     unrealized_pnl |-> 0,
     stop_loss_order_id |-> NULL,
     take_profit_order_id |-> NULL]

\* handle_entry_filled: UPDATE the trade to POSITION (no condition on its
\* current status), INSERT the position, place the stop-loss, place the
\* take-profit when planned.  Any exception propagates.
HandleEntryFilled(w, o, ao) ==
    LET trade_id == w.ord[o].trade_journal_id
        trade == w.trd[trade_id]
        filled_price == ao.filled_avg_price
        filled_qty_actual == ao.filled_qty
        filled_qty_db == Max(1, ao.filled_qty)
    IN
    IF Fails(w) THEN Raise(w, "w_fail", trade_id)
    ELSE
    LET w1 == [Done(w, "w_trade", trade_id) EXCEPT
                  !.trd[trade_id].status = "POSITION",
                  !.trd[trade_id].actual_entry = filled_price,
                  !.trd[trade_id].actual_qty = filled_qty_db]
    IN
    IF Fails(w1) THEN Raise(w1, "w_fail", trade_id)
    ELSE
    LET w2 == [Done(w1, "w_position", trade_id) EXCEPT
                  !.pos = Append(@, PositionRow(w1.pid + 1, trade_id, ao.symbol,
                                                filled_qty_db, filled_qty_actual,
                                                filled_price)),
                  !.pid = @ + 1]
        w3 == PlaceStopLoss(w2, trade_id, trade, filled_qty_actual)
        w4 == IF w3.exc THEN w3
              ELSE IF PlansTakeProfit(trade)
              THEN PlaceTakeProfit(w3, trade_id, trade, filled_qty_actual)
              ELSE w3
    IN
    IF w4.exc THEN w4
    ELSE [w4 EXCEPT !.aud.entry_done = @ \cup {trade_id}]

\* SELECT alpaca_order_id ... AND order_type IN ('STOP_LOSS', 'TAKE_PROFIT')
\*   AND order_status IN ('pending', 'new', 'accepted') [AND alpaca_order_id != filled]
RemainingOrders(ord, trade_id, filled_order_id) ==
    {i \in Indices(ord) :
        /\ ord[i].trade_journal_id = trade_id
        /\ ord[i].order_type \in {"STOP_LOSS", "TAKE_PROFIT"}
        /\ ord[i].order_status \in {"pending", "new", "accepted"}
        /\ ord[i].alpaca_order_id # filled_order_id}

\* cancel_remaining_orders' loop: cancel at the broker, then mark the row
\* cancelled; an exception on either is logged and the loop goes on.
RECURSIVE CancelEach(_, _)
CancelEach(w, todo) ==
    IF todo = <<>> THEN w
    ELSE
    LET broker_id == w.ord[Head(todo)].alpaca_order_id
        w1 == CancelOrder(w, broker_id)
        w2 == IF w1.exc THEN Swallow(w1)
              ELSE Swallow(MarkOrderCancelled(w1, broker_id))
    IN CancelEach(w2, Tail(todo))

CancelRemainingOrders(w, trade_id, filled_order_id) ==
    CancelEach(w, SeqOfSet(RemainingOrders(w.ord, trade_id, filled_order_id)))

\* The difference taken the wrong way round.
RealizedPnlEntryMinusExit(exit_price, entry_price, qty) == (entry_price - exit_price) * qty

\* pnl = (exit_price - entry_price) * qty_actual
RealizedPnl(exit_price, entry_price, qty) == (exit_price - entry_price) * qty

\* The two reasons taken for each other.
ExitReasonSwapped(order_type) ==
    IF order_type = "STOP_LOSS" THEN "TARGET_HIT" ELSE "STOPPED_OUT"

ExitReason(order_type) ==
    IF order_type = "STOP_LOSS" THEN "STOPPED_OUT" ELSE "TARGET_HIT"

\* UPDATE trade_journal SET status = 'CLOSED', exit_date, exit_price, actual_pnl,
\* exit_reason WHERE id = t (no condition on the trade's current status)
CloseTradeRow(w, trade_id, exit_price, pnl, exit_reason) ==
    IF Fails(w) THEN Raise(w, "w_fail", trade_id)
    ELSE [Done(w, "w_trade", trade_id) EXCEPT
             !.aud.closed_by = @ \cup {<<trade_id, w.job>>},
             !.trd[trade_id].status = "CLOSED",
             !.trd[trade_id].exit_date = 1,
             !.trd[trade_id].exit_price = exit_price,
             !.trd[trade_id].actual_pnl = pnl,
             !.trd[trade_id].exit_reason = exit_reason]

\* DELETE FROM position_tracking WHERE trade_journal_id = t
DeletePositionsOfTrade(w, trade_id) ==
    IF Fails(w) THEN Raise(w, "w_fail", trade_id)
    ELSE [Done(w, "d_position", trade_id) EXCEPT
             !.pos = SelectSeq(@, LAMBDA p : p.trade_journal_id # trade_id)]

\* handle_exit_filled: close the trade, delete the position, cancel the sibling.
\* A handling that returned is recorded with the Trade as it left it.
HandleExitFilled(w, o, ao) ==
    LET trade_id == w.ord[o].trade_journal_id
        trade == w.trd[trade_id]
    IN
    IF trade.actual_entry = NULL
    THEN [w EXCEPT !.exc = TRUE, !.ev = Append(@, <<"type_error", trade_id>>)]
    ELSE
    LET w1 == CloseTradeRow(w, trade_id, ao.filled_avg_price,
                            RealizedPnl(ao.filled_avg_price, trade.actual_entry,
                                        ao.filled_qty),
                            ExitReason(w.ord[o].order_type))
    IN
    IF w1.exc THEN w1
    ELSE
    LET w2 == DeletePositionsOfTrade(w1, trade_id) IN
    IF w2.exc THEN w2
    ELSE
    LET w3 == CancelRemainingOrders(w2, trade_id, w.ord[o].alpaca_order_id) IN
    [w3 EXCEPT !.aud.exits = @ \cup
        {[order |-> o,
          was |-> trade.status,
          status |-> w3.trd[trade_id].status,
          exit_price |-> w3.trd[trade_id].exit_price,
          exit_reason |-> w3.trd[trade_id].exit_reason,
          positions |-> Cardinality({i \in Indices(w3.pos) :
                                       w3.pos[i].trade_journal_id = trade_id})]}]

\* The UPDATE made whatever the Trade's status.
HandleCancelledEntryOrderUngated(w, o) ==
    LET trade_id == w.ord[o].trade_journal_id IN
    IF Fails(w) THEN Raise(w, "w_fail", trade_id)
    ELSE [Done(w, "w_trade", trade_id) EXCEPT !.trd[trade_id].status = "CANCELLED"]

\* handle_cancelled_entry_order: only a trade still ORDERED is cancelled.
HandleCancelledEntryOrder(w, o) ==
    LET trade_id == w.ord[o].trade_journal_id IN
    IF w.trd[trade_id].status # "ORDERED"
    THEN [w EXCEPT !.ev = Append(@, <<"skip", trade_id>>)]
    ELSE IF Fails(w) THEN Raise(w, "w_fail", trade_id)
    ELSE [Done(w, "w_trade", trade_id) EXCEPT !.trd[trade_id].status = "CANCELLED"]

\* The fill handlers run on a partial fill as well.
SyncOrderStatusOnAnyFill(w, o) ==
    IF Fails(w) THEN Swallow(Raise(w, "get_fail", o))
    ELSE
    LET ao == w.brk[w.ord[o].alpaca_order_id]
        our_status == StatusMap(ao.status)
        w0 == Done(w, "get", o)
    IN
    IF Fails(w0) THEN Swallow(Raise(w0, "w_fail", o))
    ELSE
    LET w1 == [Done(w0, "w_order_sync", o) EXCEPT
                  !.ord[o].order_status = our_status,
                  !.ord[o].filled_qty = ao.filled_qty,
                  !.ord[o].filled_avg_price = ao.filled_avg_price,
                  !.ord[o].filled_at = ao.filled_at]
        type == w.ord[o].order_type
        fill == our_status \in {"filled", "partially_filled"}
    IN
    Swallow(IF fill /\ type = "ENTRY"
            THEN HandleEntryFilled(w1, o, ao)
            ELSE IF fill /\ type \in {"STOP_LOSS", "TAKE_PROFIT"}
            THEN HandleExitFilled(w1, o, ao)
            ELSE IF our_status = "cancelled" /\ type = "ENTRY"
            THEN HandleCancelledEntryOrder(w1, o)
            ELSE w1)

\* sync_order_status: get the broker's order, UPDATE the row's status and fill
\* fields, branch on (mapped status, order type); any exception is caught here.
SyncOrderStatus(w, o) ==
    IF Fails(w) THEN Swallow(Raise(w, "get_fail", o))
    ELSE
    LET ao == w.brk[w.ord[o].alpaca_order_id]
        our_status == StatusMap(ao.status)
        w0 == Done(w, "get", o)
    IN
    IF Fails(w0) THEN Swallow(Raise(w0, "w_fail", o))
    ELSE
    LET w1 == [Done(w0, "w_order_sync", o) EXCEPT
                  !.ord[o].order_status = our_status,
                  !.ord[o].filled_qty = ao.filled_qty,
                  !.ord[o].filled_avg_price = ao.filled_avg_price,
                  !.ord[o].filled_at = ao.filled_at]
        type == w.ord[o].order_type
    IN
    Swallow(IF our_status = "filled" /\ type = "ENTRY"
            THEN HandleEntryFilled(w1, o, ao)
            ELSE IF our_status = "filled" /\ type \in {"STOP_LOSS", "TAKE_PROFIT"}
            THEN HandleExitFilled(w1, o, ao)
            ELSE IF our_status = "cancelled" /\ type = "ENTRY"
            THEN HandleCancelledEntryOrder(w1, o)
            ELSE w1)

\* -------------------------------------------------- Position Reconciler
PositionIds(pos) == {pos[i].id : i \in Indices(pos)}

PositionById(pos, id) == pos[CHOOSE i \in Indices(pos) : pos[i].id = id]

Quotes ==
    {[bid_price |-> 0, ask_price |-> 0],
     [bid_price |-> 100, ask_price |-> 110]}

\* bid/ask midpoint when both are present, else the ask alone, else no price
MarkPrice(quote) ==
    IF quote.bid_price # 0 /\ quote.ask_price # 0
    THEN (quote.bid_price + quote.ask_price) \div 2
    ELSE IF quote.ask_price # 0 THEN quote.ask_price
    ELSE NULL

\* update_position: quote, mark price, UPDATE position_tracking WHERE id
\* (w.valued: what this run's valuation has written, by position)
UpdatePosition(w, id, quote) ==
    IF Fails(w) THEN Swallow(Raise(w, "quote_fail", id))
    ELSE
    LET w1 == Done(w, "quote", id)
        current_price == MarkPrice(quote)
    IN
    IF current_price = NULL THEN w1
    ELSE IF Fails(w1) THEN Swallow(Raise(w1, "w_fail", id))
    ELSE [Done(w1, "w_position", id) EXCEPT
             !.valued = @ \cup
                 {[id |-> id,
                   exit_price |-> current_price,
                   pnl |-> (current_price - PositionById(w.pos, id).avg_entry_price)
                               * PositionById(w.pos, id).qty]},
             !.pos = [i \in Indices(w.pos) |->
                        IF w.pos[i].id # id THEN w.pos[i]
                        ELSE [w.pos[i] EXCEPT
                                 !.current_price = current_price,
                                 !.market_value = current_price * w.pos[i].qty,
                                 !.unrealized_pnl =
                                     (current_price - w.pos[i].avg_entry_price)
                                         * w.pos[i].qty]]]

\* SELECT ... AND order_type IN ('STOP_LOSS', 'TAKE_PROFIT') AND order_status =
\* 'filled' ORDER BY filled_at DESC LIMIT 1
FilledExitOrders(ord, trade_id) ==
    {i \in Indices(ord) :
        /\ ord[i].trade_journal_id = trade_id
        /\ ord[i].order_type \in {"STOP_LOSS", "TAKE_PROFIT"}
        /\ ord[i].order_status = "filled"}

\* ORDER BY filled_at ASC in the place of DESC.
EarliestFilled(ord, S) ==
    CHOOSE i \in S : \A j \in S : ord[i].filled_at <= ord[j].filled_at

LatestFilled(ord, S) ==
    CHOOSE i \in S : \A j \in S : ord[j].filled_at <= ord[i].filled_at

\* The fallback taken from the entry in the place of the last mark.
LastMarkAtEntry(position) ==
    [exit_price |-> position.avg_entry_price, pnl |-> 0]

\* exit_price = position['current_price'], pnl = position['unrealized_pnl']
LastMark(position) ==
    [exit_price |-> position.current_price, pnl |-> position.unrealized_pnl]

\* A loop that the first failed cancel ends.
RECURSIVE CancelAtBrokerEachUntilFailure(_, _)
CancelAtBrokerEachUntilFailure(w, todo) ==
    IF todo = <<>> THEN w
    ELSE
    LET w1 == CancelOrder(w, w.ord[Head(todo)].alpaca_order_id) IN
    IF w1.exc THEN Swallow(w1)
    ELSE CancelAtBrokerEachUntilFailure(w1, Tail(todo))

\* the loop over remaining_orders: cancel at the broker, errors ignored; the
\* order_execution rows are not written.
RECURSIVE CancelAtBrokerEach(_, _)
CancelAtBrokerEach(w, todo) ==
    IF todo = <<>> THEN w
    ELSE CancelAtBrokerEach(Swallow(CancelOrder(w, w.ord[Head(todo)].alpaca_order_id)),
                            Tail(todo))

\* DELETE FROM position_tracking WHERE id = id
DeletePosition(w, id) ==
    IF Fails(w) THEN Raise(w, "w_fail", id)
    ELSE [Done(w, "d_position", id) EXCEPT
             !.pos = SelectSeq(@, LAMBDA p : p.id # id)]

\* reconcile_closed_position: exit data from the latest filled protective order,
\* else from the position's last mark; close the trade, delete the position,
\* cancel what is left.  Every exception is caught inside.  The last close
\* written for a Trade is recorded and, when no filled order decided it, the
\* mark last persisted for the position: the one this run's valuation wrote, or
\* else the one the run found in the store at its start.
ReconcileClosedPosition(w, position) ==
    LET trade_id == position.trade_journal_id
        found == FilledExitOrders(w.ord, trade_id)
        order == w.ord[LatestFilled(w.ord, found)]
        exit_price == IF found # {} THEN order.filled_avg_price
                      ELSE LastMark(position).exit_price
        pnl == IF found # {}
               THEN (order.filled_avg_price - position.avg_entry_price) * position.qty
               ELSE LastMark(position).pnl
        exit_reason == IF found # {} THEN ExitReason(order.order_type)
                       ELSE "MANUAL_EXIT"
        w1 == CloseTradeRow(w, trade_id, exit_price, pnl, exit_reason)
    IN
    IF w1.exc THEN Swallow(w1)
    ELSE
    LET wrote == {v \in w.valued : v.id = position.id}
        start == PositionById(w.pos0, position.id)
        w2 == DeletePosition(
                  [w1 EXCEPT !.aud.reconciled = {r \in @ : r.trade # trade_id} \cup
                      {[trade |-> trade_id,
                        exit_price |-> w1.trd[trade_id].exit_price,
                        pnl |-> w1.trd[trade_id].actual_pnl,
                        exit_reason |-> w1.trd[trade_id].exit_reason,
                        valued |-> found = {} /\ wrote # {},
                        last |-> IF found # {} THEN {}
                                 ELSE IF wrote # {}
                                 THEN {[exit_price |-> v.exit_price, pnl |-> v.pnl] :
                                          v \in wrote}
                                 ELSE {[exit_price |-> start.current_price,
                                        pnl |-> start.unrealized_pnl]}]}],
                  position.id)
    IN
    IF w2.exc THEN Swallow(w2)
    ELSE CancelAtBrokerEach(w2, SeqOfSet(RemainingOrders(w2.ord, trade_id, NULL)))

\* ------------------------------------------------------- state machine
NoCalc == [stage |-> "none"]

NoAudit ==
    [entry_done |-> {}, closed_by |-> {}, cancels |-> {}, exits |-> {},
     reconciled |-> {}]

\* The store and the broker as a run of `job` sees them.
World(job) ==
    [dec |-> decisions, trd |-> trades, ord |-> orders, pos |-> positions,
     pid |-> posSerial, brk |-> alpaca, hist |-> flagHist, aud |-> audit,
     listed |-> {}, valued |-> {}, pos0 |-> positions, job |-> job, who |-> NULL,
     ev |-> <<>>, n |-> 0, failAt |-> NULL, exc |-> FALSE, log |-> <<>>]

\* One item's processing begins: its statements are counted from 1.
Begin(w, who, failAt) ==
    [w EXCEPT !.who = who, !.ev = <<>>, !.n = 0, !.failAt = failAt, !.exc = FALSE]

\* The statement named by failAt was reached, and raised.
Injected(w) == w.failAt # NULL /\ w.n >= w.failAt

End(w, handler, item) ==
    [w EXCEPT !.log = Append(@, [handler |-> handler, item |-> item, ev |-> w.ev,
                                 n |-> w.n, fault |-> Injected(w)])]

FaultsIn(log) == Cardinality({i \in Indices(log) : log[i].fault})

\* A run ends: what it wrote is in the store; faults counts the statement that
\* was made to fail.
Commit(w) ==
    /\ faults' = faults + FaultsIn(w.log)
    /\ decisions' = w.dec
    /\ trades' = w.trd
    /\ orders' = w.ord
    /\ positions' = w.pos
    /\ posSerial' = w.pid
    /\ alpaca' = w.brk
    /\ flagHist' = w.hist
    /\ audit' = w.aud
    /\ UNCHANGED <<held, calc>>

\* Nothing in the store, nothing at the broker.
EmptyStore ==
    /\ decisions = <<>>
    /\ trades = <<>>
    /\ orders = <<>>
    /\ positions = <<>>
    /\ posSerial = 0
    /\ alpaca = <<>>
    /\ held = {}
    /\ flagHist = <<>>
    /\ audit = NoAudit
    /\ faults = 0

Init ==
    /\ EmptyStore
    /\ calc = NoCalc

\* ---- upstream: decisions are created outside the core
Payload(qty, take_profit, strategy) ==
    [side |-> "buy", qty |-> qty, limit_price |-> 100, stop_price |-> 90,
     take_profit |-> take_profit, strategy |-> strategy]

NoPayload ==
    [side |-> "buy", qty |-> NULL, limit_price |-> NULL, stop_price |-> NULL,
     take_profit |-> NULL, strategy |-> "SWING"]

ValidPayloads == {Payload(2, 120, "SWING"), Payload(2, NULL, "SWING"), Payload(2, 120, "TREND")}

NoRef == [order_id |-> NULL, trade_id |-> NULL]

\* What a CANCEL or AMEND decision can refer to: an ENTRY order the executor
\* placed and its trade; nothing, while no decision was ever made.
EntryRefs ==
    IF decisions = <<>> THEN {NoRef}
    ELSE {[order_id |-> orders[i].alpaca_order_id,
           trade_id |-> orders[i].trade_journal_id] :
             i \in {j \in Indices(orders) : orders[j].order_type = "ENTRY"}}

DecisionRow(action, approved, payload, ref, symbol) ==
    [action |-> action, approved |-> approved, executed |-> FALSE,
     existing_order_id |-> ref.order_id,
     existing_trade_journal_id |-> ref.trade_id,
     symbol |-> symbol, side |-> payload.side, qty |-> payload.qty,
     limit_price |-> payload.limit_price, stop_price |-> payload.stop_price,
     take_profit |-> payload.take_profit, strategy |-> payload.strategy]

NewTradeDecisions ==
    {DecisionRow("NEW_TRADE", TRUE, p, NoRef, s) :
        p \in ValidPayloads \cup {Payload(NULL, 120, "SWING")}, s \in Symbols}
    \cup {DecisionRow("NEW_TRADE", FALSE, Payload(2, 120, "SWING"), NoRef, s) : s \in Symbols}
    \cup {DecisionRow("HOLD", TRUE, NoPayload, NoRef, s) : s \in Symbols}

FollowUpDecisions ==
    {DecisionRow("CANCEL", TRUE, NoPayload, r, s) :
            r \in EntryRefs, s \in Symbols}
    \cup {DecisionRow("AMEND", TRUE, p, r, s) :
            p \in {Payload(2, 120, "SWING"), Payload(NULL, 120, "SWING")},
            r \in EntryRefs, s \in Symbols}

\* A decision is created: the first is any of the above, the later ones are
\* follow-ups.
Upstream ==
    /\ Len(decisions) < MaxDecisions
    /\ \E row \in (IF decisions = <<>> THEN NewTradeDecisions ELSE {}) \cup FollowUpDecisions :
          /\ decisions' = Append(decisions, row)
          /\ flagHist' = Append(flagHist, [ups |-> 0, downs |-> 0])
    /\ UNCHANGED <<trades, orders, positions, posSerial, alpaca, held, audit, faults, calc>>

\* ---- the broker's own moves
FillCount == Cardinality({i \in Indices(alpaca) : alpaca[i].filled_at # NULL})

HeldAfter(order) ==
    IF order.side = "buy" THEN held \cup {order.symbol} ELSE held \ {order.symbol}

\* Orders fill at their own price: a limit order at its limit, a stop at its stop.
FillPrice(order) ==
    IF order.limit_price # NULL THEN order.limit_price ELSE order.stop_price

BrokerFill ==
    \E b \in Indices(alpaca) :
        /\ alpaca[b].status \in OpenStatuses
        /\ alpaca' = [alpaca EXCEPT ![b].status = "filled",
                                    ![b].filled_qty = alpaca[b].qty,
                                    ![b].filled_avg_price = FillPrice(alpaca[b]),
                                    ![b].filled_at = FillCount + 1]
        /\ held' = HeldAfter(alpaca[b])
        /\ UNCHANGED <<decisions, trades, orders, positions, posSerial, flagHist, audit, faults, calc>>

BrokerPartialFill ==
    \E b \in Indices(alpaca) :
        /\ alpaca[b].status = "new"
        /\ alpaca[b].qty > 1
        /\ \A o \in Indices(alpaca) : alpaca[o].filled_qty \in {0, alpaca[o].qty}
        /\ alpaca' = [alpaca EXCEPT ![b].status = "partially_filled",
                                    ![b].filled_qty = 1,
                                    ![b].filled_avg_price = FillPrice(alpaca[b])]
        /\ held' = IF alpaca[b].side = "buy" THEN held \cup {alpaca[b].symbol} ELSE held
        /\ UNCHANGED <<decisions, trades, orders, positions, posSerial, flagHist, audit, faults, calc>>

BrokerTerminate ==
    \E b \in Indices(alpaca), status \in {"expired"} :
        /\ alpaca[b].status \in OpenStatuses
        /\ alpaca' = [alpaca EXCEPT ![b].status = status]
        /\ UNCHANGED <<decisions, trades, orders, positions, posSerial, held, flagHist,
                       audit, faults, calc>>

\* The position is closed outside the system.
ManualClose ==
    \E s \in held :
        /\ held' = held \ {s}
        /\ UNCHANGED <<decisions, trades, orders, positions, posSerial, alpaca, flagHist,
                       audit, faults, calc>>

\* ---- the runs
\* How a run can go, given the log of its fault-free execution: in item k
\* statement failAt raises (k = 0: no statement is made to fail).
RunChoices(log) ==
    {c \in UNION {[k : {k}, failAt : IF k = 0 THEN {NULL} ELSE 1..log[k].n] :
                     k \in 0..Len(log)} :
        c.k # 0 => faults < MaxFaults}

\* A loop that an exception in one decision ends.
RECURSIVE ExecutorLoopStopping(_, _, _, _)
ExecutorLoopStopping(w, todo, k, failAt) ==
    IF todo = <<>> \/ (w.log # <<>> /\ w.log[Len(w.log)].fault) THEN w
    ELSE ExecutorLoopStopping(End(ProcessDecision(Begin(w, Head(todo),
                                                        IF k = 1 THEN failAt ELSE NULL),
                                                  Head(todo)),
                                  "process_decision", Head(todo)),
                              Tail(todo), k - 1, failAt)

\* OrderExecutor.run: the eligible decisions, oldest first.
RECURSIVE ExecutorLoop(_, _, _, _)
ExecutorLoop(w, todo, k, failAt) ==
    IF todo = <<>> THEN w
    ELSE ExecutorLoop(End(ProcessDecision(Begin(w, Head(todo),
                                                IF k = 1 THEN failAt ELSE NULL),
                                          Head(todo)),
                          "process_decision", Head(todo)),
                      Tail(todo), k - 1, failAt)

\* SELECT * FROM analysis_decision WHERE ... ORDER BY "Date_time" ASC
DecisionsToExecute(dec) ==
    SeqOfSet({d \in Indices(dec) : Eligible(dec[d])})

ExecutorRun ==
    LET found == DecisionsToExecute(decisions) IN
    /\ found # <<>>
    /\ \E c \in RunChoices(ExecutorLoop(World("executor"), found, 0, NULL).log) :
          Commit(ExecutorLoop(World("executor"), found, c.k, c.failAt))

\* A loop that an exception in one sync ends.
RECURSIVE OrderMonitorLoopStopping(_, _, _, _)
OrderMonitorLoopStopping(w, todo, k, failAt) ==
    IF todo = <<>> \/ (w.log # <<>> /\ w.log[Len(w.log)].fault) THEN w
    ELSE OrderMonitorLoopStopping(End(SyncOrderStatus(Begin(w, NULL,
                                                            IF k = 1 THEN failAt ELSE NULL),
                                                      Head(todo)),
                                      "sync_order_status", Head(todo)),
                                  Tail(todo), k - 1, failAt)

\* OrderMonitor.run: the orders in a polled status, oldest first.
RECURSIVE OrderMonitorLoop(_, _, _, _)
OrderMonitorLoop(w, todo, k, failAt) ==
    IF todo = <<>> THEN w
    ELSE OrderMonitorLoop(End(SyncOrderStatus(Begin(w, NULL,
                                                    IF k = 1 THEN failAt ELSE NULL),
                                              Head(todo)),
                              "sync_order_status", Head(todo)),
                          Tail(todo), k - 1, failAt)

\* SELECT * FROM order_execution WHERE order_status IN (...) ORDER BY created_at ASC
OrdersToMonitor(ord) ==
    SeqOfSet({o \in Indices(ord) : ord[o].order_status \in PolledStatuses})

OrderMonitorRun ==
    LET found == OrdersToMonitor(orders)
        plain == OrderMonitorLoop(World("order_monitor"), found, 0, NULL)
    IN
    /\ found # <<>>
    /\ \E c \in RunChoices(plain.log) :
          Commit(OrderMonitorLoop(World("order_monitor"), found, c.k, c.failAt))

\* check_for_closed_positions: get_all_positions (on an exception: return), then
\* every tracked position whose symbol is not listed is reconciled.
RECURSIVE ReconcileLoop(_, _, _, _)
ReconcileLoop(w, todo, k, failAt) ==
    IF todo = <<>> THEN w
    ELSE
    LET position == PositionById(w.pos, Head(todo))
        w0 == Begin(w, NULL, IF k = 1 THEN failAt ELSE NULL)
        w1 == IF position.symbol \in w.listed
              THEN End(w0, "still_open", Head(todo))
              ELSE End(ReconcileClosedPosition(w0, position),
                       "reconcile_closed_position", Head(todo))
    IN ReconcileLoop(w1, Tail(todo), k - 1, failAt)

\* A failed get_all_positions taken for an empty list.
CheckForClosedPositionsOnNoList(w, k, failAt) ==
    LET w0 == Begin(w, NULL, IF k = 1 THEN failAt ELSE NULL)
        w1 == IF Fails(w0) THEN Swallow(Raise(w0, "positions_fail", NULL))
              ELSE [Done(w0, "positions", NULL) EXCEPT !.listed = held]
    IN ReconcileLoop(End(w1, "get_all_positions", NULL),
                     SeqOfSet(PositionIds(w.pos)), k - 1, failAt)

CheckForClosedPositions(w, k, failAt) ==
    LET w0 == Begin(w, NULL, IF k = 1 THEN failAt ELSE NULL) IN
    IF Fails(w0)
    THEN End(Swallow(Raise(w0, "positions_fail", NULL)), "get_all_positions", NULL)
    ELSE ReconcileLoop(End([Done(w0, "positions", NULL) EXCEPT !.listed = held],
                           "get_all_positions", NULL),
                       SeqOfSet(PositionIds(w.pos)), k - 1, failAt)

\* PositionMonitor.run: the valuation pass over the positions, then the
\* reconciliation pass.
RECURSIVE UpdateLoop(_, _, _, _, _)
UpdateLoop(w, todo, k, failAt, quotes) ==
    IF todo = <<>> THEN w
    ELSE
    LET position == PositionById(w.pos, Head(todo)) IN
    UpdateLoop(End(UpdatePosition(Begin(w, NULL, IF k = 1 THEN failAt ELSE NULL),
                                  Head(todo), quotes[position.symbol]),
                   "update_position", Head(todo)),
               Tail(todo), k - 1, failAt, quotes)

PositionMonitorLoop(found, k, failAt, quotes) ==
    CheckForClosedPositions(UpdateLoop(World("position_monitor"), found, k, failAt, quotes),
                            k - Len(found), failAt)

PositionMonitorRun ==
    LET found == SeqOfSet(PositionIds(positions)) IN
    /\ found # <<>>
    /\ \E quotes \in [Symbols -> Quotes] :
          \E c \in RunChoices(PositionMonitorLoop(found, 0, NULL, quotes).log) :
              Commit(PositionMonitorLoop(found, c.k, c.failAt, quotes))

Next ==
    \/ Upstream
    \/ BrokerFill
    \/ BrokerPartialFill
    \/ BrokerTerminate
    \/ ManualClose
    \/ ExecutorRun
    \/ OrderMonitorRun
    \/ PositionMonitorRun

Spec == Init /\ [][Next]_vars

\* ------------------------------------------------------ money arithmetic
\* handle_exit_filled's arithmetic with the precision the values have: the
\* broker reports a fill price in mills (tenths of a cent) and a quantity in
\* halves of a share; the Trade's actual_entry is a DECIMAL(10,2), in cents;
\* the P&L is computed in binary floating point and stored in a DECIMAL(10,2).
MaxSubCent == 9
MaxHalfShares == 20

EntryCents == {15025, 20050}

FillCents == {16010, 19490}

FillMills == {10 * c + m : c \in FillCents, m \in 0..MaxSubCent}

\* A float result is its exact value, or off it to either side by much less
\* than the finest unit there is.
FloatErrors == {-1, 0, 1}

Abs(x) == IF x >= 0 THEN x ELSE -x

\* The nearest multiple of d to n, in units of d, the half going away from zero.
RoundHalfAway(n, d) ==
    IF n >= 0 THEN (2 * n + d) \div (2 * d) ELSE -((2 * (-n) + d) \div (2 * d))

\* A float of exact value n / d cents, off by err, written to a DECIMAL(10,2)
\* column: the store rounds it to the cent.
StoreDecimal(n, d, err) == RoundHalfAway(4 * n + err, 4 * d)

ExitFills ==
    [stage : {"exit_filled"}, actual_entry : EntryCents, order_type : Protective,
     filled_avg_price : FillMills, filled_qty : 1..MaxHalfShares,
     price_err : FloatErrors, pnl_err : FloatErrors]

MoneyInit ==
    /\ EmptyStore
    /\ calc \in ExitFills

\* handle_exit_filled: exit_price, pnl and exit_reason as computed and as the
\* UPDATE trade_journal stores them.
CloseOnExitFill ==
    /\ calc.stage = "exit_filled"
    /\ calc' = [stage |-> "closed",
                actual_entry |-> calc.actual_entry,
                order_type |-> calc.order_type,
                filled_avg_price |-> calc.filled_avg_price,
                filled_qty |-> calc.filled_qty,
                exit_price |-> StoreDecimal(calc.filled_avg_price, 10, calc.price_err),
                actual_pnl |-> StoreDecimal(RealizedPnl(calc.filled_avg_price,
                                                        10 * calc.actual_entry,
                                                        calc.filled_qty),
                                            20, calc.pnl_err),
                exit_reason |-> ExitReason(calc.order_type)]
    /\ UNCHANGED <<decisions, trades, orders, positions, posSerial, alpaca, held,
                   flagHist, audit, faults>>

MoneyNext == CloseOnExitFill

MoneySpec == MoneyInit /\ [][MoneyNext]_vars

\* ------------------------------------------------------ reconciliation
\* The Position Reconciler on a store as the Order Reconciler can leave it: one
\* Trade in POSITION with its Position and its filled ENTRY order, and a
\* STOP_LOSS and a TAKE_PROFIT order, each still pending (open at the broker, or
\* filled there and not polled since), filled (its fill was recorded and the
\* close then failed) or cancelled.
ReconDecision ==
    [DecisionRow("NEW_TRADE", TRUE, Payload(2, 120, "SWING"), NoRef, "AAPL")
        EXCEPT !.executed = TRUE, !.existing_order_id = 1,
               !.existing_trade_journal_id = 1]

ReconTrade ==
    [NewTradeRow(1, ReconDecision) EXCEPT
        !.status = "POSITION", !.actual_entry = 100, !.actual_qty = 2]

\* The entry's fill in halves of a share: 2 shares, or 2.5 (the executor sends
\* the decision's qty as a float).  The Position's qty is max(1, int(filled_qty));
\* the protective orders are placed for the filled quantity, which the INT
\* columns qty and filled_qty of order_execution hold rounded to the nearest
\* share.  The broker's quantities, which the Position Reconciler never reads,
\* are given as the store holds them.
EntryHalves == {4, 5}

\* A broker order and its order_execution row, in one of the four conditions.
ProtectiveStates == {"open", "filled_unseen", "filled_seen", "cancelled"}

ReconBrokerOrder(type, state, at, qty) ==
    [status |-> CASE state = "open" -> "new"
                  [] state = "cancelled" -> "canceled"
                  [] OTHER -> "filled",
     symbol |-> "AAPL", side |-> "sell", qty |-> qty,
     limit_price |-> IF type = "TAKE_PROFIT" THEN 120 ELSE NULL,
     stop_price |-> IF type = "STOP_LOSS" THEN 90 ELSE NULL,
     filled_qty |-> IF state \in {"filled_unseen", "filled_seen"} THEN qty ELSE 0,
     filled_avg_price |-> IF state \notin {"filled_unseen", "filled_seen"} THEN NULL
                          ELSE IF type = "TAKE_PROFIT" THEN 120 ELSE 90,
     filled_at |-> IF state \in {"filled_unseen", "filled_seen"} THEN at ELSE NULL,
     role |-> type, decision |-> NULL, trade |-> 1, by |-> "order_monitor"]

ReconOrderRow(type, broker_id, state, at, qty) ==
    [ProtectiveOrderRow(1, broker_id, type, qty, IF type = "TAKE_PROFIT" THEN 120 ELSE 90)
        EXCEPT !.order_status = CASE state = "filled_seen" -> "filled"
                                  [] state = "cancelled" -> "cancelled"
                                  [] OTHER -> "pending",
               !.filled_qty = IF state = "filled_seen" THEN qty ELSE NULL,
               !.filled_avg_price = IF state # "filled_seen" THEN NULL
                                    ELSE IF type = "TAKE_PROFIT" THEN 120 ELSE 90,
               !.filled_at = IF state = "filled_seen" THEN at ELSE NULL]

ReconInit ==
    \E sl \in ProtectiveStates, tp \in ProtectiveStates, first \in Protective,
       mark \in {100, 105}, listed \in SUBSET Symbols, halves \in EntryHalves :
        LET qty_db == Max(1, halves \div 2)
            qty_order == RoundHalfAway(halves, 2)
            sl_at == IF first = "STOP_LOSS" THEN 2 ELSE 3
            tp_at == IF first = "STOP_LOSS" THEN 3 ELSE 2
            entry == [status |-> "filled", symbol |-> "AAPL", side |-> "buy", qty |-> 2,
                      limit_price |-> 100, stop_price |-> NULL, filled_qty |-> 2,
                      filled_avg_price |-> 100, filled_at |-> 1, role |-> "ENTRY",
                      decision |-> 1, trade |-> NULL, by |-> "executor"]
            sold == {sl, tp} \cap {"filled_unseen", "filled_seen"} # {}
        IN
        /\ sold => listed = {}
        /\ decisions = <<ReconDecision>>
        /\ flagHist = <<[ups |-> 1, downs |-> 0]>>
        /\ trades = <<ReconTrade>>
        /\ orders = <<[EntryOrderRow(1, ReconDecision, 1, 1) EXCEPT
                          !.order_status = "filled", !.filled_qty = 2,
                          !.filled_avg_price = 100, !.filled_at = 1],
                      ReconOrderRow("STOP_LOSS", 2, sl, sl_at, qty_order),
                      ReconOrderRow("TAKE_PROFIT", 3, tp, tp_at, qty_order)>>
        /\ alpaca = <<entry, ReconBrokerOrder("STOP_LOSS", sl, sl_at, qty_order),
                      ReconBrokerOrder("TAKE_PROFIT", tp, tp_at, qty_order)>>
        /\ positions = <<[PositionRow(1, 1, "AAPL", qty_db, 2, 100) EXCEPT
                             !.cost_basis = (100 * halves) \div 2,
                             !.current_price = mark,
                             !.market_value = mark * qty_db,
                             !.unrealized_pnl = (mark - 100) * qty_db,
                             !.stop_loss_order_id = 2,
                             !.take_profit_order_id = 3]>>
        /\ posSerial = 1
        /\ held = listed
        /\ audit = [NoAudit EXCEPT !.entry_done = {1}]
        /\ faults = 0
        /\ calc = NoCalc

ReconNext == PositionMonitorRun

ReconSpec == ReconInit /\ [][ReconNext]_vars

\* ------------------------------------------------------ status sync
\* The Order Reconciler on a store as the Decision Executor leaves it: one
\* executed NEW_TRADE decision, its Trade in ORDERED and its pending ENTRY order,
\* for which the broker reports any status of its vocabulary: the eight that
\* sync_order_status maps and others that it does not.
AlpacaStatuses ==
    {"new", "accepted", "pending_new", "filled", "partially_filled", "canceled",
     "rejected", "expired", "pending_cancel", "done_for_day", "replaced"}

\* side = new_trade.get('side', 'buy'): a long entry or a short one
OrderSides == {"buy", "sell"}

SyncDecision(payload) ==
    [DecisionRow("NEW_TRADE", TRUE, payload, NoRef, "AAPL")
        EXCEPT !.executed = TRUE, !.existing_order_id = 1,
               !.existing_trade_journal_id = 1]

SyncInit ==
    \E status \in AlpacaStatuses, bought \in ValidPayloads, side \in OrderSides :
        LET payload == [bought EXCEPT !.side = side]
            got == CASE status = "filled" -> payload.qty
                     [] status = "partially_filled" -> 1
                     [] OTHER -> 0
        IN
        /\ decisions = <<SyncDecision(payload)>>
        /\ flagHist = <<[ups |-> 1, downs |-> 0]>>
        /\ trades = <<NewTradeRow(1, SyncDecision(payload))>>
        /\ orders = <<EntryOrderRow(1, SyncDecision(payload), 1, 1)>>
        /\ alpaca = <<[status |-> status, symbol |-> "AAPL", side |-> side,
                       qty |-> payload.qty, limit_price |-> payload.limit_price,
                       stop_price |-> NULL, filled_qty |-> got,
                       filled_avg_price |-> IF got = 0 THEN NULL ELSE payload.limit_price,
                       filled_at |-> IF status = "filled" THEN 1 ELSE NULL,
                       role |-> "ENTRY", decision |-> 1, trade |-> NULL,
                       by |-> "executor"]>>
        /\ positions = <<>>
        /\ posSerial = 0
        /\ held = IF got = 0 THEN {} ELSE {"AAPL"}
        /\ audit = NoAudit
        /\ faults = 0
        /\ calc = NoCalc

SyncNext == OrderMonitorRun

SyncSpec == SyncInit /\ [][SyncNext]_vars

\* ---- two Trades in POSITION, each with its Position, its filled ENTRY order
\* and a STOP_LOSS order that is open at the broker or filled there and not
\* polled since; the broker still lists the symbol or not (a Position whose
\* stop-loss filled is no longer held).  Both reconcilers run.
PairDecision(t) ==
    [ReconDecision EXCEPT !.existing_order_id = t, !.existing_trade_journal_id = t]

PairEntryOrder(t) ==
    [status |-> "filled", symbol |-> "AAPL", side |-> "buy", qty |-> 2,
     limit_price |-> 100, stop_price |-> NULL, filled_qty |-> 2,
     filled_avg_price |-> 100, filled_at |-> t, role |-> "ENTRY",
     decision |-> t, trade |-> NULL, by |-> "executor"]

PairInit ==
    \E sl \in [{1, 2} -> {"open", "filled_unseen"}], listed \in SUBSET Symbols :
        /\ (\A t \in {1, 2} : sl[t] = "filled_unseen") => listed = {}
        /\ decisions = <<PairDecision(1), PairDecision(2)>>
        /\ flagHist = <<[ups |-> 1, downs |-> 0], [ups |-> 1, downs |-> 0]>>
        /\ trades = [t \in {1, 2} |->
                        [NewTradeRow(t, PairDecision(t)) EXCEPT
                            !.status = "POSITION", !.actual_entry = 100, !.actual_qty = 2]]
        /\ orders = [i \in 1..4 |->
                        IF i <= 2
                        THEN [EntryOrderRow(i, PairDecision(i), i, i) EXCEPT
                                 !.order_status = "filled", !.filled_qty = 2,
                                 !.filled_avg_price = 100, !.filled_at = i]
                        ELSE [ReconOrderRow("STOP_LOSS", i, sl[i - 2], i, 2) EXCEPT
                                 !.trade_journal_id = i - 2]]
        /\ alpaca = [i \in 1..4 |->
                        IF i <= 2 THEN PairEntryOrder(i)
                        ELSE [ReconBrokerOrder("STOP_LOSS", sl[i - 2], i, 2) EXCEPT
                                 !.trade = i - 2]]
        /\ positions = [t \in {1, 2} |->
                           [PositionRow(t, t, "AAPL", 2, 2, 100) EXCEPT
                               !.stop_loss_order_id = t + 2]]
        /\ posSerial = 2
        /\ held = listed
        /\ audit = [NoAudit EXCEPT !.entry_done = {1, 2}]
        /\ faults = 0
        /\ calc = NoCalc

PairNext ==
    \/ OrderMonitorRun
    \/ PositionMonitorRun

PairSpec == PairInit /\ [][PairNext]_vars

\* ---- the scheduler: the cron triggers of setup_scheduler with their default
\* values, over the minutes of a weekday (every trigger is mon-fri, US/Eastern).
executor_hour == 9
executor_minute == 45
om_trading_hours == 9..15
om_trading_interval == 5
om_eod_hour == 18
om_eod_minute == 0
pm_trading_hours == 9..15
pm_trading_interval == 10
pm_eod_hour == 18
pm_eod_minute == 15

Jobs == {"order_executor", "order_monitor", "position_monitor"}

\* CronTrigger(hour = 'a-b', minute = '*/n') fires at the minutes 0, n, 2n, ...
\* of the hours a to b; CronTrigger(hour = h, minute = m) at h:m.
Fires(job, hour, minute) ==
    CASE job = "order_executor" -> hour = executor_hour /\ minute = executor_minute
      [] job = "order_monitor" ->
            \/ hour \in om_trading_hours /\ minute % om_trading_interval = 0
            \/ hour = om_eod_hour /\ minute = om_eod_minute
      [] job = "position_monitor" ->
            \/ hour \in pm_trading_hours /\ minute % pm_trading_interval = 0
            \/ hour = pm_eod_hour /\ minute = pm_eod_minute

\* The scheduler's clock at hour:minute and the jobs it submits to its thread
\* pool at that instant.
Clock(hour, minute) ==
    [stage |-> "clock", hour |-> hour, minute |-> minute,
     started |-> {job \in Jobs : Fires(job, hour, minute)}]

ClockInit ==
    /\ EmptyStore
    /\ calc = Clock(0, 0)

Tick ==
    /\ calc.stage = "clock"
    /\ calc' = IF calc.minute < 59 THEN Clock(calc.hour, calc.minute + 1)
               ELSE Clock((calc.hour + 1) % 24, 0)
    /\ UNCHANGED <<decisions, trades, orders, positions, posSerial, alpaca, held,
                   flagHist, audit, faults>>

ClockNext == Tick

ClockSpec == ClockInit /\ [][ClockNext]_vars

\* ---- the two reconcilers started together (the scheduler runs jobs that are
\* due at the same instant in separate threads, each with its own connection):
\* their statements interleave, every statement committing on its own.  The
\* store holds one Trade in POSITION with its Position and a pending STOP_LOSS
\* and TAKE_PROFIT order; one of the two has filled at the broker, which no
\* longer lists the symbol.  No statement raises but a cancel of an order that
\* is no longer open.
RaceStart ==
    [stage |-> "race",
     om |-> [pc |-> "select", todo |-> <<>>, ao |-> <<>>, entry_price |-> NULL,
             rest |-> <<>>],
     pm |-> [pc |-> "select", todo |-> <<>>, price |-> NULL, listed |-> {},
             found |-> <<>>, rest |-> <<>>]]

RaceInit ==
    \E first \in Protective :
        LET state(type) == IF type = first THEN "filled_unseen" ELSE "open"
            entry == [status |-> "filled", symbol |-> "AAPL", side |-> "buy", qty |-> 2,
                      limit_price |-> 100, stop_price |-> NULL, filled_qty |-> 2,
                      filled_avg_price |-> 100, filled_at |-> 1, role |-> "ENTRY",
                      decision |-> 1, trade |-> NULL, by |-> "executor"]
        IN
        /\ decisions = <<ReconDecision>>
        /\ flagHist = <<[ups |-> 1, downs |-> 0]>>
        /\ trades = <<ReconTrade>>
        /\ orders = <<[EntryOrderRow(1, ReconDecision, 1, 1) EXCEPT
                          !.order_status = "filled", !.filled_qty = 2,
                          !.filled_avg_price = 100, !.filled_at = 1],
                      ReconOrderRow("STOP_LOSS", 2, state("STOP_LOSS"), 2, 2),
                      ReconOrderRow("TAKE_PROFIT", 3, state("TAKE_PROFIT"), 2, 2)>>
        /\ alpaca = <<entry, ReconBrokerOrder("STOP_LOSS", state("STOP_LOSS"), 2, 2),
                      ReconBrokerOrder("TAKE_PROFIT", state("TAKE_PROFIT"), 2, 2)>>
        /\ positions = <<[PositionRow(1, 1, "AAPL", 2, 2, 100) EXCEPT
                             !.stop_loss_order_id = 2,
                             !.take_profit_order_id = 3]>>
        /\ posSerial = 1
        /\ held = {}
        /\ audit = [NoAudit EXCEPT !.entry_done = {1}]
        /\ faults = 0
        /\ calc = RaceStart

Racing == calc.stage = "race"

\* -- OrderMonitor.run, statement by statement
\* the for loop goes to the next order
OmAdvance(om) ==
    [om EXCEPT !.todo = Tail(@), !.ao = <<>>, !.rest = <<>>,
               !.pc = IF Tail(om.todo) = <<>> THEN "done" ELSE "get"]

\* the loop of cancel_remaining_orders goes to the next order
OmNextCancel(om) ==
    IF Tail(om.rest) = <<>> THEN OmAdvance(om)
    ELSE [om EXCEPT !.rest = Tail(@), !.pc = "cancel"]

\* SELECT * FROM order_execution WHERE order_status IN (...)
OmSelect ==
    /\ Racing /\ calc.om.pc = "select"
    /\ calc' = [calc EXCEPT !.om.todo = OrdersToMonitor(orders),
                            !.om.pc = IF OrdersToMonitor(orders) = <<>> THEN "done"
                                      ELSE "get"]
    /\ UNCHANGED <<decisions, trades, orders, positions, posSerial, alpaca, held,
                   flagHist, audit, faults>>

\* alpaca_order = self.alpaca.get_order_by_id(alpaca_order_id)
OmGet ==
    /\ Racing /\ calc.om.pc = "get"
    /\ calc' = [calc EXCEPT
                   !.om.ao = <<alpaca[orders[Head(calc.om.todo)].alpaca_order_id]>>,
                   !.om.pc = "w_order"]
    /\ UNCHANGED <<decisions, trades, orders, positions, posSerial, alpaca, held,
                   flagHist, audit, faults>>

\* UPDATE order_execution SET order_status, filled_qty, filled_avg_price,
\* filled_at; then the branch on (mapped status, order type)
OmWriteOrder ==
    /\ Racing /\ calc.om.pc = "w_order"
    /\ LET o == Head(calc.om.todo)
           ao == calc.om.ao[1]
       IN
       /\ orders' = [orders EXCEPT ![o].order_status = StatusMap(ao.status),
                                   ![o].filled_qty = ao.filled_qty,
                                   ![o].filled_avg_price = ao.filled_avg_price,
                                   ![o].filled_at = ao.filled_at]
       /\ calc' = IF StatusMap(ao.status) = "filled" /\ orders[o].order_type \in Protective
                  THEN [calc EXCEPT !.om.pc = "read_trade"]
                  ELSE [calc EXCEPT !.om = OmAdvance(@)]
    /\ UNCHANGED <<decisions, trades, positions, posSerial, alpaca, held, flagHist,
                   audit, faults>>

\* handle_exit_filled: SELECT * FROM trade_journal WHERE id
OmReadTrade ==
    /\ Racing /\ calc.om.pc = "read_trade"
    /\ calc' = [calc EXCEPT
                   !.om.entry_price =
                       trades[orders[Head(calc.om.todo)].trade_journal_id].actual_entry,
                   !.om.pc = "close"]
    /\ UNCHANGED <<decisions, trades, orders, positions, posSerial, alpaca, held,
                   flagHist, audit, faults>>

\* handle_exit_filled: UPDATE trade_journal SET status = 'CLOSED', ...
OmClose ==
    /\ Racing /\ calc.om.pc = "close"
    /\ LET o == Head(calc.om.todo)
           ao == calc.om.ao[1]
           w == CloseTradeRow(World("order_monitor"), orders[o].trade_journal_id,
                              ao.filled_avg_price,
                              RealizedPnl(ao.filled_avg_price, calc.om.entry_price,
                                          ao.filled_qty),
                              ExitReason(orders[o].order_type))
       IN
       /\ trades' = w.trd
       /\ audit' = w.aud
    /\ calc' = [calc EXCEPT !.om.pc = "delete"]
    /\ UNCHANGED <<decisions, orders, positions, posSerial, alpaca, held, flagHist,
                   faults>>

\* handle_exit_filled: DELETE FROM position_tracking WHERE trade_journal_id
OmDelete ==
    /\ Racing /\ calc.om.pc = "delete"
    /\ positions' = DeletePositionsOfTrade(World("order_monitor"),
                        orders[Head(calc.om.todo)].trade_journal_id).pos
    /\ calc' = [calc EXCEPT !.om.pc = "select_remaining"]
    /\ UNCHANGED <<decisions, trades, orders, posSerial, alpaca, held, flagHist,
                   audit, faults>>

\* cancel_remaining_orders: SELECT the pending siblings
OmSelectRemaining ==
    /\ Racing /\ calc.om.pc = "select_remaining"
    /\ LET o == Head(calc.om.todo)
           rest == SeqOfSet(RemainingOrders(orders, orders[o].trade_journal_id,
                                            orders[o].alpaca_order_id))
       IN calc' = IF rest = <<>> THEN [calc EXCEPT !.om = OmAdvance(@)]
                  ELSE [calc EXCEPT !.om.rest = rest, !.om.pc = "cancel"]
    /\ UNCHANGED <<decisions, trades, orders, positions, posSerial, alpaca, held,
                   flagHist, audit, faults>>

\* cancel_remaining_orders: cancel_order_by_id; an exception skips the UPDATE
OmCancel ==
    /\ Racing /\ calc.om.pc = "cancel"
    /\ LET w == CancelOrder(World("order_monitor"),
                            orders[Head(calc.om.rest)].alpaca_order_id)
       IN
       /\ alpaca' = w.brk
       /\ calc' = IF w.exc THEN [calc EXCEPT !.om = OmNextCancel(@)]
                  ELSE [calc EXCEPT !.om.pc = "mark"]
    /\ UNCHANGED <<decisions, trades, orders, positions, posSerial, held, flagHist,
                   audit, faults>>

\* cancel_remaining_orders: UPDATE order_execution SET order_status = 'cancelled'
OmMark ==
    /\ Racing /\ calc.om.pc = "mark"
    /\ orders' = MarkOrderCancelled(World("order_monitor"),
                                    orders[Head(calc.om.rest)].alpaca_order_id).ord
    /\ calc' = [calc EXCEPT !.om = OmNextCancel(@)]
    /\ UNCHANGED <<decisions, trades, positions, posSerial, alpaca, held, flagHist,
                   audit, faults>>

\* -- PositionMonitor.run, statement by statement; todo holds the rows a SELECT
\* returned
\* the valuation loop goes to the next position, or the reconciliation begins
PmNextValuation(pm) ==
    IF Tail(pm.todo) = <<>> THEN [pm EXCEPT !.todo = <<>>, !.pc = "list"]
    ELSE [pm EXCEPT !.todo = Tail(@), !.pc = "quote"]

\* the loop over the tracked positions goes to the next vanished position
PmNextTracked(pm, todo) ==
    LET left == SelectSeq(todo, LAMBDA p : p.symbol \notin pm.listed) IN
    IF left = <<>> THEN [pm EXCEPT !.todo = <<>>, !.found = <<>>, !.rest = <<>>,
                                   !.pc = "done"]
    ELSE [pm EXCEPT !.todo = left, !.found = <<>>, !.rest = <<>>, !.pc = "find"]

\* SELECT * FROM position_tracking ORDER BY symbol
PmSelect ==
    /\ Racing /\ calc.pm.pc = "select"
    /\ calc' = [calc EXCEPT !.pm.todo = positions,
                            !.pm.pc = IF positions = <<>> THEN "done" ELSE "quote"]
    /\ UNCHANGED <<decisions, trades, orders, positions, posSerial, alpaca, held,
                   flagHist, audit, faults>>

\* update_position: get_stock_latest_quote, the mark price
PmQuote ==
    /\ Racing /\ calc.pm.pc = "quote"
    /\ \E quote \in Quotes :
          calc' = IF MarkPrice(quote) = NULL
                  THEN [calc EXCEPT !.pm = PmNextValuation(@)]
                  ELSE [calc EXCEPT !.pm.price = MarkPrice(quote),
                                    !.pm.pc = "w_position"]
    /\ UNCHANGED <<decisions, trades, orders, positions, posSerial, alpaca, held,
                   flagHist, audit, faults>>

\* update_position: UPDATE position_tracking SET current_price, market_value,
\* unrealized_pnl WHERE id (quantity and entry price as the SELECT returned them)
PmWritePosition ==
    /\ Racing /\ calc.pm.pc = "w_position"
    /\ LET position == Head(calc.pm.todo)
           current_price == calc.pm.price
       IN positions' = [i \in Indices(positions) |->
                           IF positions[i].id # position.id THEN positions[i]
                           ELSE [positions[i] EXCEPT
                                    !.current_price = current_price,
                                    !.market_value = current_price * position.qty,
                                    !.unrealized_pnl =
                                        (current_price - position.avg_entry_price)
                                            * position.qty]]
    /\ calc' = [calc EXCEPT !.pm = PmNextValuation(@)]
    /\ UNCHANGED <<decisions, trades, orders, posSerial, alpaca, held, flagHist,
                   audit, faults>>

\* check_for_closed_positions: get_all_positions
PmList ==
    /\ Racing /\ calc.pm.pc = "list"
    /\ calc' = [calc EXCEPT !.pm.listed = held, !.pm.pc = "select_tracked"]
    /\ UNCHANGED <<decisions, trades, orders, positions, posSerial, alpaca, held,
                   flagHist, audit, faults>>

\* check_for_closed_positions: SELECT * FROM position_tracking
PmSelectTracked ==
    /\ Racing /\ calc.pm.pc = "select_tracked"
    /\ calc' = [calc EXCEPT !.pm = PmNextTracked(@, positions)]
    /\ UNCHANGED <<decisions, trades, orders, positions, posSerial, alpaca, held,
                   flagHist, audit, faults>>

\* reconcile_closed_position: SELECT the latest filled protective order
PmFind ==
    /\ Racing /\ calc.pm.pc = "find"
    /\ LET found == FilledExitOrders(orders, Head(calc.pm.todo).trade_journal_id) IN
       calc' = [calc EXCEPT
                   !.pm.found = IF found = {} THEN <<>>
                                ELSE <<orders[LatestFilled(orders, found)]>>,
                   !.pm.pc = "close"]
    /\ UNCHANGED <<decisions, trades, orders, positions, posSerial, alpaca, held,
                   flagHist, audit, faults>>

\* reconcile_closed_position: UPDATE trade_journal SET status = 'CLOSED', ...
PmClose ==
    /\ Racing /\ calc.pm.pc = "close"
    /\ LET position == Head(calc.pm.todo)
           found == calc.pm.found
           w == IF found # <<>>
                THEN CloseTradeRow(World("position_monitor"), position.trade_journal_id,
                                   found[1].filled_avg_price,
                                   (found[1].filled_avg_price - position.avg_entry_price)
                                       * position.qty,
                                   ExitReason(found[1].order_type))
                ELSE CloseTradeRow(World("position_monitor"), position.trade_journal_id,
                                   LastMark(position).exit_price,
                                   LastMark(position).pnl, "MANUAL_EXIT")
       IN
       /\ trades' = w.trd
       /\ audit' = w.aud
    /\ calc' = [calc EXCEPT !.pm.pc = "delete"]
    /\ UNCHANGED <<decisions, orders, positions, posSerial, alpaca, held, flagHist,
                   faults>>

\* reconcile_closed_position: DELETE FROM position_tracking WHERE id
PmDelete ==
    /\ Racing /\ calc.pm.pc = "delete"
    /\ positions' = DeletePosition(World("position_monitor"), Head(calc.pm.todo).id).pos
    /\ calc' = [calc EXCEPT !.pm.pc = "select_remaining"]
    /\ UNCHANGED <<decisions, trades, orders, posSerial, alpaca, held, flagHist,
                   audit, faults>>

\* reconcile_closed_position: SELECT the pending protective orders
PmSelectRemaining ==
    /\ Racing /\ calc.pm.pc = "select_remaining"
    /\ LET rest == SeqOfSet(RemainingOrders(orders, Head(calc.pm.todo).trade_journal_id,
                                            NULL))
       IN calc' = IF rest = <<>> THEN [calc EXCEPT !.pm = PmNextTracked(@, Tail(@.todo))]
                  ELSE [calc EXCEPT !.pm.rest = rest, !.pm.pc = "cancel"]
    /\ UNCHANGED <<decisions, trades, orders, positions, posSerial, alpaca, held,
                   flagHist, audit, faults>>

\* reconcile_closed_position: cancel_order_by_id, every exception ignored
PmCancel ==
    /\ Racing /\ calc.pm.pc = "cancel"
    /\ alpaca' = CancelOrder(World("position_monitor"),
                             orders[Head(calc.pm.rest)].alpaca_order_id).brk
    /\ calc' = IF Tail(calc.pm.rest) = <<>>
               THEN [calc EXCEPT !.pm = PmNextTracked(@, Tail(@.todo))]
               ELSE [calc EXCEPT !.pm.rest = Tail(@)]
    /\ UNCHANGED <<decisions, trades, orders, positions, posSerial, held, flagHist,
                   audit, faults>>

RaceNext ==
    \/ OmSelect
    \/ OmGet
    \/ OmWriteOrder
    \/ OmReadTrade
    \/ OmClose
    \/ OmDelete
    \/ OmSelectRemaining
    \/ OmCancel
    \/ OmMark
    \/ PmSelect
    \/ PmQuote
    \/ PmWritePosition
    \/ PmList
    \/ PmSelectTracked
    \/ PmFind
    \/ PmClose
    \/ PmDelete
    \/ PmSelectRemaining
    \/ PmCancel

RaceSpec == RaceInit /\ [][RaceNext]_vars

\* ------------------------------------------------------ executor batches
\* The Decision Executor on a batch of pending decisions, nothing else being in
\* the store: each a NEW_TRADE (valid, lacking its quantity, its limit price or
\* its stop price, or not approved), a CANCEL or an AMEND with no order to refer
\* to, or an approved HOLD carrying the parameters of a trade.  A quantity or
\* price of 0 is falsy as a missing one is: both are NULL.
BatchSize == 3

BatchRows ==
    {DecisionRow("NEW_TRADE", TRUE, Payload(2, 120, "SWING"), NoRef, "AAPL"),
     DecisionRow("NEW_TRADE", TRUE, Payload(NULL, 120, "SWING"), NoRef, "AAPL"),
     DecisionRow("NEW_TRADE", TRUE, [Payload(2, 120, "SWING") EXCEPT !.limit_price = NULL],
                 NoRef, "AAPL"),
     DecisionRow("NEW_TRADE", TRUE, [Payload(2, 120, "SWING") EXCEPT !.stop_price = NULL],
                 NoRef, "AAPL"),
     DecisionRow("NEW_TRADE", FALSE, Payload(2, 120, "SWING"), NoRef, "AAPL"),
     DecisionRow("CANCEL", TRUE, NoPayload, NoRef, "AAPL"),
     DecisionRow("AMEND", TRUE, Payload(2, 120, "SWING"), NoRef, "AAPL"),
     DecisionRow("HOLD", TRUE, Payload(2, 120, "SWING"), NoRef, "AAPL")}

BatchInit ==
    /\ decisions \in [1..BatchSize -> BatchRows]
    /\ flagHist = [d \in 1..BatchSize |-> [ups |-> 0, downs |-> 0]]
    /\ trades = <<>>
    /\ orders = <<>>
    /\ positions = <<>>
    /\ posSerial = 0
    /\ alpaca = <<>>
    /\ held = {}
    /\ audit = NoAudit
    /\ faults = 0
    /\ calc = NoCalc

BatchNext == ExecutorRun

BatchSpec == BatchInit /\ [][BatchNext]_vars

\* ------------------------------------------------------------ claims
TradesOf(d) == {t \in Indices(trades) : trades[t].initial_analysis_id = d}

EntrySubmissionsOf(d) ==
    {b \in Indices(alpaca) : alpaca[b].role = "ENTRY" /\ alpaca[b].decision = d}

OrdersOf(t, type) ==
    {o \in Indices(orders) :
        orders[o].trade_journal_id = t /\ orders[o].order_type = type}

PositionsOf(t) == {i \in Indices(positions) : positions[i].trade_journal_id = t}

\* C1: for every approved NEW_TRADE decision at most one entry order is ever
\* submitted to the broker and at most one Trade is created, whatever failed
\* in the executor runs that processed it.
C1_AtMostOneEntryPerDecision ==
    \A d \in Indices(decisions) :
        (decisions[d].action = "NEW_TRADE" /\ decisions[d].approved) =>
            /\ Cardinality(EntrySubmissionsOf(d)) <= 1
            /\ Cardinality(TradesOf(d)) <= 1

\* C2: a decision whose executed flag is true when a run begins is left alone by
\* the run: none of its fields change, no broker order is submitted for it, no
\* cancel call is made for it, no Trade and no Order record is created for it.
C2_ExecutedNeverReprocessed ==
    [][\A d \in Indices(decisions) :
          decisions[d].executed =>
              /\ decisions'[d] = decisions[d]
              /\ flagHist'[d] = flagHist[d]
              /\ {b \in Indices(alpaca') : alpaca'[b].decision = d}
                     = {b \in Indices(alpaca) : alpaca[b].decision = d}
              /\ {c \in audit'.cancels : c[2] = d} = {c \in audit.cancels : c[2] = d}
              /\ {t \in Indices(trades') : trades'[t].initial_analysis_id = d} = TradesOf(d)
              /\ {o \in Indices(orders') : orders'[o].analysis_decision_id = d}
                     = {o \in Indices(orders) : orders[o].analysis_decision_id = d}]_vars

\* An executed CANCEL decision that refers to the entry order of an earlier
\* executed decision: the executor ran over the earlier one after it was executed.
C2_Witness ==
    \E d1 \in Indices(decisions), d2 \in Indices(decisions) :
        /\ d1 < d2
        /\ decisions[d1].executed
        /\ decisions[d2].executed
        /\ decisions[d2].action = "CANCEL"
        /\ decisions[d1].existing_order_id # NULL
        /\ decisions[d2].existing_order_id = decisions[d1].existing_order_id

\* C3: the executed flag of every decision is written from false to true at
\* most once and never from true back to false.
C3_ExecutedSetOnce ==
    \A d \in Indices(decisions) :
        flagHist[d].ups <= 1 /\ flagHist[d].downs = 0

\* C4: a Trade has status POSITION if and only if exactly one Position record
\* references it (the store changes only in runs, so this is every state a
\* completed run leaves).
C4_PositionIffOneRecord ==
    \A t \in Indices(trades) :
        (trades[t].status = "POSITION") <=> (Cardinality(PositionsOf(t)) = 1)

LegalMoves ==
    {<<"ORDERED", "POSITION">>, <<"POSITION", "CLOSED">>, <<"ORDERED", "CANCELLED">>}

\* C5: a run changes a Trade's status only along ORDERED->POSITION,
\* POSITION->CLOSED, ORDERED->CANCELLED, and a run that leaves the status as it
\* was (a transition applied again) leaves the whole Trade as it was.
C5_LegalMovesIdempotent ==
    [][\A t \in Indices(trades) :
          IF trades'[t].status # trades[t].status
          THEN <<trades[t].status, trades'[t].status>> \in LegalMoves
          ELSE trades'[t] = trades[t]]_vars

\* C6: once a Trade is CLOSED or CANCELLED no run changes any of its fields.
C6_TerminalTradeFrozen ==
    [][\A t \in Indices(trades) :
          trades[t].status \in {"CLOSED", "CANCELLED"} => trades'[t] = trades[t]]_vars

\* The quantity the Trade's ENTRY order was observed filled for.
EntryFilledQty(t) ==
    LET e == CHOOSE o \in OrdersOf(t, "ENTRY") : orders[o].order_status = "filled"
    IN orders[e].filled_qty

EntryObservedFilled(t) ==
    \E e \in OrdersOf(t, "ENTRY") :
        /\ orders[e].order_status = "filled"
        /\ alpaca[orders[e].alpaca_order_id].status = "filled"

\* C7: every Trade in status POSITION has exactly one STOP_LOSS Order, recorded
\* in the store and held by the broker, at the Trade's planned stop-loss price
\* and for the entry's filled quantity.
C7_OneStopLoss ==
    \A t \in Indices(trades) :
        trades[t].status = "POSITION" =>
            /\ Cardinality(OrdersOf(t, "STOP_LOSS")) = 1
            /\ \A o \in OrdersOf(t, "STOP_LOSS") :
                  /\ orders[o].stop_price = trades[t].planned_stop_loss
                  /\ orders[o].qty = EntryFilledQty(t)
                  /\ alpaca[orders[o].alpaca_order_id].role = "STOP_LOSS"
                  /\ alpaca[orders[o].alpaca_order_id].stop_price
                         = trades[t].planned_stop_loss
                  /\ alpaca[orders[o].alpaca_order_id].qty = EntryFilledQty(t)

\* C8: a TAKE_PROFIT order exists for a Trade only if its trade_style is SWING
\* and it has a planned take-profit price; it is then a sell at that price for
\* the entry's filled quantity, at the broker and in the store; and once the
\* entry fill was handled to the end there is exactly one if the Trade plans
\* one, and none (the handling still succeeding) if it does not.
C8_TakeProfitIffPlanned ==
    \A t \in Indices(trades) :
        LET planned == trades[t].trade_style = "SWING"
                           /\ trades[t].planned_take_profit # NULL
            rows == OrdersOf(t, "TAKE_PROFIT")
            sent == {b \in Indices(alpaca) :
                        alpaca[b].role = "TAKE_PROFIT" /\ alpaca[b].trade = t}
        IN
        /\ (rows # {} \/ sent # {}) => planned
        /\ t \in audit.entry_done =>
              Cardinality(rows) = (IF planned THEN 1 ELSE 0)
        /\ {orders[o].alpaca_order_id : o \in rows} \subseteq sent
        /\ \A o \in rows :
              /\ orders[o].limit_price = trades[t].planned_take_profit
              /\ orders[o].qty = EntryFilledQty(t)
        /\ \A b \in sent :
              /\ alpaca[b].side = "sell"
              /\ alpaca[b].limit_price = trades[t].planned_take_profit
              /\ alpaca[b].qty = EntryFilledQty(t)

\* An entry fill was handled to the end and the Trade, which plans a
\* take-profit, got its TAKE_PROFIT order.
C8_Witness ==
    \E t \in audit.entry_done :
        /\ OrdersOf(t, "TAKE_PROFIT") # {}
        /\ trades[t].status = "POSITION"

\* C9: a STOP_LOSS or TAKE_PROFIT order, at the broker or in the store, belongs
\* to a Trade whose ENTRY order the Order Reconciler has recorded as filled (and
\* the broker reports filled), and was submitted by the Order Reconciler: the
\* Decision Executor submits entry orders only.
C9_ProtectiveAfterEntryFilled ==
    /\ \A o \in Indices(orders) :
          orders[o].order_type \in Protective =>
              EntryObservedFilled(orders[o].trade_journal_id)
    /\ \A b \in Indices(alpaca) :
          /\ alpaca[b].role \in Protective =>
                 /\ alpaca[b].by = "order_monitor"
                 /\ EntryObservedFilled(alpaca[b].trade)
          /\ alpaca[b].by = "executor" => alpaca[b].role = "ENTRY"

\* A stop-loss was placed, at the broker and in the store.
C9_Witness ==
    \E o \in Indices(orders) :
        /\ orders[o].order_type = "STOP_LOSS"
        /\ alpaca[orders[o].alpaca_order_id].role = "STOP_LOSS"

\* C10: when the Order Reconciler closed a Trade on a protective-order fill,
\* every protective order of the Trade is locally filled or cancelled, or is at
\* least no longer open at the broker (its local status follows on the next
\* poll): none is left live.
C10_SiblingCancelled ==
    \A t \in Indices(trades) :
        <<t, "order_monitor">> \in audit.closed_by =>
            \A o \in OrdersOf(t, "STOP_LOSS") \cup OrdersOf(t, "TAKE_PROFIT") :
                \/ orders[o].order_status \in {"filled", "cancelled"}
                \/ ~BrokerOpen(alpaca, orders[o].alpaca_order_id)

\* C11: when the Order Reconciler closes a Trade on a protective-order fill, the
\* stored realized P&L is (exit fill price - actual entry price) x the exit
\* order's filled quantity to the cent: the cent nearest to the exact product,
\* and the exact product whenever that is a whole number of cents (entry 150.25,
\* 10 shares, take-profit fill 160.10: 98.50; entry 200.50, 5 shares, stop-loss
\* fill 194.90: -28.00).
C11_RealizedPnlToTheCent ==
    calc.stage = "closed" =>
        LET exact == (calc.filled_avg_price - 10 * calc.actual_entry) * calc.filled_qty
        IN
        /\ 2 * Abs(20 * calc.actual_pnl - exact) <= 20
        /\ exact % 20 = 0 => 20 * calc.actual_pnl = exact
        /\ (calc.actual_entry = 15025 /\ calc.filled_avg_price = 160100
                /\ calc.filled_qty = 20) => calc.actual_pnl = 9850
        /\ (calc.actual_entry = 20050 /\ calc.filled_avg_price = 194900
                /\ calc.filled_qty = 10) => calc.actual_pnl = -2800

\* The first example: entry 150.25, 10 shares, filled at 160.10, closed with 98.50.
C11_Witness ==
    /\ calc.stage = "closed"
    /\ calc.actual_entry = 15025
    /\ calc.filled_avg_price = 160100
    /\ calc.filled_qty = 20
    /\ calc.actual_pnl = 9850

\* C12: when the Order Reconciler has observed a STOP_LOSS or TAKE_PROFIT order
\* as filled and handled the fill, the parent Trade, which was in POSITION, is
\* CLOSED with exit price equal to the order's fill price and exit reason
\* STOPPED_OUT for a stop-loss, TARGET_HIT for a take-profit, and no Position
\* record of the Trade is left.
C12_ExitFillClosesTrade ==
    \A e \in audit.exits :
        /\ orders[e.order].order_type \in Protective
        /\ orders[e.order].order_status = "filled"
        /\ e.was = "POSITION" =>
              /\ e.status = "CLOSED"
              /\ e.exit_price = alpaca[orders[e.order].alpaca_order_id].filled_avg_price
              /\ e.exit_price # NULL
              /\ orders[e.order].order_type = "STOP_LOSS" => e.exit_reason = "STOPPED_OUT"
              /\ orders[e.order].order_type = "TAKE_PROFIT" => e.exit_reason = "TARGET_HIT"
              /\ e.positions = 0

\* A take-profit fill was handled for a Trade in POSITION, which it closed.
C12_Witness ==
    \E e \in audit.exits :
        /\ e.was = "POSITION"
        /\ orders[e.order].order_type = "TAKE_PROFIT"
        /\ trades[orders[e.order].trade_journal_id].status = "CLOSED"
        /\ PositionsOf(orders[e.order].trade_journal_id) = {}

FilledProtectiveOf(t) ==
    {o \in OrdersOf(t, "STOP_LOSS") \cup OrdersOf(t, "TAKE_PROFIT") :
        orders[o].order_status = "filled"}

\* C13: when a Position whose symbol the broker no longer lists is reconciled
\* and its Trade has a filled STOP_LOSS or TAKE_PROFIT Order record, the close
\* written has the exit price of the most recently filled of these orders and
\* its exit reason, STOPPED_OUT for a stop-loss and TARGET_HIT for a
\* take-profit, never MANUAL_EXIT.  (The Position Reconciler does not write
\* Order records: the orders of the state are those the reconciliation read.)
C13_FilledProtectiveDecidesExit ==
    \A r \in audit.reconciled :
        FilledProtectiveOf(r.trade) # {} =>
            \E o \in FilledProtectiveOf(r.trade) :
                /\ \A other \in FilledProtectiveOf(r.trade) :
                      orders[other].filled_at <= orders[o].filled_at
                /\ r.exit_price = orders[o].filled_avg_price
                /\ r.exit_reason = (IF orders[o].order_type = "STOP_LOSS"
                                    THEN "STOPPED_OUT" ELSE "TARGET_HIT")
                /\ r.exit_reason # "MANUAL_EXIT"

\* A reconciliation closed the Trade from two filled protective orders, the
\* take-profit filled first and the stop-loss last: the Trade is STOPPED_OUT.
C13_Witness ==
    \E r \in audit.reconciled :
        /\ Cardinality(FilledProtectiveOf(r.trade)) = 2
        /\ \E o \in OrdersOf(r.trade, "STOP_LOSS") : orders[o].filled_at = 3
        /\ trades[r.trade].status = "CLOSED"
        /\ trades[r.trade].exit_reason = "STOPPED_OUT"
        /\ trades[r.trade].exit_price = 90

\* C14: when a Position whose symbol the broker no longer lists is reconciled
\* and its Trade has no filled protective Order record, the close written has
\* exit reason MANUAL_EXIT and the Position's last persisted mark price and
\* unrealized P&L: those this run's valuation wrote when it wrote any (a quote
\* was there), else those the run found in the store.
C14_ManualExitAtLastMark ==
    \A r \in audit.reconciled :
        FilledProtectiveOf(r.trade) = {} =>
            /\ r.exit_reason = "MANUAL_EXIT"
            /\ r.last = {[exit_price |-> r.exit_price, pnl |-> r.pnl]}
            /\ r.valued =>
                  \E q \in Quotes : MarkPrice(q) # NULL /\ r.exit_price = MarkPrice(q)

\* A manual exit closed at the mark this run's valuation wrote: 105, and an
\* unrealized P&L of 10.
C14_Witness ==
    \E r \in audit.reconciled :
        /\ r.exit_reason = "MANUAL_EXIT"
        /\ r.valued
        /\ r.last = {[exit_price |-> 105, pnl |-> 10]}
        /\ trades[r.trade].status = "CLOSED"
        /\ trades[r.trade].exit_price = 105
        /\ trades[r.trade].actual_pnl = 10

\* The Order Reconciler run from the current state with nothing failing, and its
\* next run on what the first left, the broker not having moved.
FirstSync == OrderMonitorLoop(World("order_monitor"), OrdersToMonitor(orders), 0, NULL)

SecondSync(first) ==
    OrderMonitorLoop([first EXCEPT !.log = <<>>], OrdersToMonitor(first.ord), 0, NULL)

\* C15: the second of two successive Order Reconciler runs, the broker not
\* having changed in between, creates and deletes no Trade, Order or Position
\* record, changes no Trade, and submits or cancels no broker order: for each
\* polled order it gets the broker's order and rewrites the Order record's
\* status and fill fields, with the values they have.
C15_SecondRunOnlyRefreshes ==
    LET first == FirstSync
        second == SecondSync(first)
        events == {second.log[k].ev[i][1] :
                      <<k, i>> \in {x \in Indices(second.log) \X (1..3) :
                                       x[2] <= Len(second.log[x[1]].ev)}}
    IN
    /\ second.trd = first.trd
    /\ second.pos = first.pos
    /\ second.pid = first.pid
    /\ second.brk = first.brk
    /\ second.ord = first.ord
    /\ second.dec = first.dec
    /\ Len(second.log) = Len(OrdersToMonitor(first.ord))
    /\ \A k \in Indices(second.log) : Len(second.log[k].ev) <= 3
    /\ events \subseteq {"get", "w_order_sync", "skip"}

\* The first run handles an entry fill (it creates the Position and places the
\* protective orders) and the second run polls the orders it placed.
C15_Witness ==
    LET first == FirstSync
        second == SecondSync(first)
    IN
    /\ Len(first.pos) > Len(positions)
    /\ Len(first.brk) > Len(alpaca)
    /\ Len(second.log) >= 2
    /\ \E k \in Indices(second.log) :
          second.log[k].ev = <<<<"get", second.log[k].item>>,
                               <<"w_order_sync", second.log[k].item>>>>

\* A statement of the item's processing raised.
Failed(entry) ==
    \E i \in Indices(entry.ev) :
        entry.ev[i][1] \in {"submit_fail", "cancel_fail", "w_fail"}

\* The run of the Decision Executor from the current state in which statement
\* c.failAt of its item c.k raises (c.k = 0: none).
ExecutorRunWith(c) ==
    ExecutorLoop(World("executor"), DecisionsToExecute(decisions), c.k, c.failAt)

ExecutorRunChoices == RunChoices(ExecutorRunWith([k |-> 0, failAt |-> NULL]).log)

\* C16: in a run of the Decision Executor every eligible decision is processed,
\* in order, whatever failed in the processing of another: a NEW_TRADE lacking a
\* required field stays unexecuted, and the decisions no statement of which
\* raised end executed, a NEW_TRADE (or AMEND) with its entry order placed and
\* its Trade recorded; no decision but the one made to fail fails, the broker
\* taking orders.  With three pending NEW_TRADE decisions of which the second
\* lacks its quantity: the first and the third end executed with their orders
\* placed, the second stays executed = false.
C16_FailureDoesNotStopTheRun ==
    \A c \in ExecutorRunChoices :
        LET found == DecisionsToExecute(decisions)
            w == ExecutorRunWith(c)
            placed(d) == \E b \in (Len(alpaca) + 1)..Len(w.brk) : w.brk[b].decision = d
            recorded(d) == \E t \in (Len(trades) + 1)..Len(w.trd) :
                               w.trd[t].initial_analysis_id = d
        IN
        /\ [k \in Indices(w.log) |-> w.log[k].item] = found
        /\ \A k \in Indices(found) :
              LET d == found[k] IN
              /\ (k # c.k /\ Len(w.brk) < MaxBrokerOrders) => ~Failed(w.log[k])
              /\ ~RequiredFieldsPresent(decisions[d])
                     /\ decisions[d].action = "NEW_TRADE" =>
                     ~w.dec[d].executed /\ ~placed(d) /\ ~recorded(d)
              /\ ~Failed(w.log[k]) /\ RequiredFieldsPresent(decisions[d]) =>
                     w.dec[d].executed /\ placed(d) /\ recorded(d)
              /\ ~Failed(w.log[k]) /\ decisions[d].action = "CANCEL" =>
                     w.dec[d].executed

\* Of three pending NEW_TRADE decisions the second lacks its quantity; after a
\* run the first and the third are executed, each with its entry order at the
\* broker and its Trade, and the second is not.
C16_Witness ==
    /\ Len(decisions) = 3
    /\ \A d \in {1, 2, 3} : decisions[d].action = "NEW_TRADE" /\ decisions[d].approved
    /\ decisions[1].executed /\ ~decisions[2].executed /\ decisions[3].executed
    /\ decisions[2].qty = NULL
    /\ EntrySubmissionsOf(1) # {} /\ EntrySubmissionsOf(3) # {}
    /\ TradesOf(1) # {} /\ TradesOf(3) # {}
    /\ EntrySubmissionsOf(2) = {} /\ TradesOf(2) = {}

\* The same run up to and including its item k.
ExecutorRunUpTo(c, k) ==
    ExecutorLoop(World("executor"), SubSeq(DecisionsToExecute(decisions), 1, k),
                 c.k, c.failAt)

Kinds(entry) == {entry.ev[i][1] : i \in Indices(entry.ev)}

\* C17: a CANCEL decision with no back-referenced broker order id is processed
\* with no broker call and no write of a Trade or Order record, whatever fails;
\* its one statement is the UPDATE that marks it executed, and unless that
\* raises the decision is executed = true when the run ends.
C17_CancelWithoutOrder ==
    \A c \in ExecutorRunChoices :
        LET found == DecisionsToExecute(decisions)
            w == ExecutorRunWith(c)
        IN
        \A k \in Indices(found) :
            LET d == found[k]
                before == ExecutorRunUpTo(c, k - 1)
                after == ExecutorRunUpTo(c, k)
            IN
            (decisions[d].action = "CANCEL" /\ decisions[d].existing_order_id = NULL) =>
                /\ after.brk = before.brk
                /\ after.trd = before.trd
                /\ after.ord = before.ord
                /\ after.pos = before.pos
                /\ after.aud.cancels = before.aud.cancels
                /\ Kinds(w.log[k]) \subseteq {"w_decision", "w_fail"}
                /\ ~Failed(w.log[k]) => after.dec[d].executed /\ w.dec[d].executed

\* A CANCEL decision with no order to cancel is executed, its flag written
\* once, and no cancel call was made for it.
C17_Witness ==
    \E d \in Indices(decisions) :
        /\ decisions[d].action = "CANCEL"
        /\ decisions[d].existing_order_id = NULL
        /\ decisions[d].executed
        /\ flagHist[d] = [ups |-> 1, downs |-> 0]
        /\ \A x \in audit.cancels : x[2] # d

\* C18: a NEW_TRADE decision whose quantity, entry limit price or stop price is
\* missing or falsy is skipped by the run: no statement that can raise is
\* executed for it (no broker call, no store write), so no exception reaches the
\* run loop; no broker order, Trade or Order record is created; the decision is
\* left as it was, executed = false, and is eligible again in the next run.
C18_InvalidNewTradeSkipped ==
    \A c \in ExecutorRunChoices :
        LET found == DecisionsToExecute(decisions)
            w == ExecutorRunWith(c)
        IN
        \A k \in Indices(found) :
            LET d == found[k]
                before == ExecutorRunUpTo(c, k - 1)
                after == ExecutorRunUpTo(c, k)
            IN
            (/\ decisions[d].action = "NEW_TRADE"
             /\ \/ decisions[d].qty = NULL
                \/ decisions[d].limit_price = NULL
                \/ decisions[d].stop_price = NULL) =>
                /\ after.brk = before.brk
                /\ after.trd = before.trd
                /\ after.ord = before.ord
                /\ after.dec = before.dec
                /\ after.hist = before.hist
                /\ w.log[k].n = 0
                /\ ~Failed(w.log[k])
                /\ c.k # k
                /\ w.dec[d] = decisions[d]
                /\ ~w.dec[d].executed
                /\ d \in {w.log[j].item : j \in Indices(w.log)}
                /\ \E j \in Indices(DecisionsToExecute(w.dec)) :
                      DecisionsToExecute(w.dec)[j] = d

\* A NEW_TRADE decision with no stop price is still pending, its flag never
\* written and nothing placed for it, after a run that executed a later
\* decision of the batch.
C18_Witness ==
    \E d \in Indices(decisions), later \in Indices(decisions) :
        /\ d < later
        /\ decisions[later].executed
        /\ decisions[d].action = "NEW_TRADE"
        /\ decisions[d].approved
        /\ decisions[d].stop_price = NULL
        /\ ~decisions[d].executed
        /\ flagHist[d] = [ups |-> 0, downs |-> 0]
        /\ EntrySubmissionsOf(d) = {}
        /\ TradesOf(d) = {}

\* The Decision Executor's next run on what the run w left, nothing failing.
ExecutorRunAfter(w) ==
    ExecutorLoop([w EXCEPT !.log = <<>>], DecisionsToExecute(w.dec), 0, NULL)

\* C19: when the broker fails or rejects the entry-order submission of a
\* NEW_TRADE decision, the processing of the decision creates no Trade and no
\* Order record and leaves the decision as it was, executed = false; the next
\* run of the Decision Executor processes it again, beginning with the
\* submission of its entry order, and, the broker taking it, ends with the
\* decision executed.
C19_FailedSubmissionIsRetried ==
    \A c \in ExecutorRunChoices :
        LET found == DecisionsToExecute(decisions)
            w == ExecutorRunWith(c)
            next == ExecutorRunAfter(w)
        IN
        \A k \in Indices(found) :
            LET d == found[k]
                before == ExecutorRunUpTo(c, k - 1)
                after == ExecutorRunUpTo(c, k)
            IN
            (decisions[d].action = "NEW_TRADE" /\ "submit_fail" \in Kinds(w.log[k])) =>
                /\ after.trd = before.trd
                /\ after.ord = before.ord
                /\ after.dec = before.dec
                /\ ~w.dec[d].executed
                /\ \E j \in Indices(next.log) :
                      /\ next.log[j].item = d
                      /\ next.log[j].ev # <<>>
                      /\ next.log[j].ev[1][1] \in {"submit", "submit_fail"}
                      /\ next.log[j].ev[1][1] = "submit" =>
                            /\ next.dec[d].executed
                            /\ \E b \in (Len(w.brk) + 1)..Len(next.brk) :
                                  next.brk[b].decision = d

\* The submission of the only eligible decision failed (nothing was placed or
\* recorded in that run); the next run submitted it again: one entry order, one
\* Trade, the decision executed.
C19_Witness ==
    /\ faults = 1
    /\ Len(decisions) = 3
    /\ decisions[1].action = "NEW_TRADE"
    /\ decisions[1].executed
    /\ \A d \in {2, 3} : ~Eligible(decisions[d]) /\ ~decisions[d].executed
    /\ Len(alpaca) = 1
    /\ Len(trades) = 1
    /\ Len(orders) = 1

\* The rows of a sequence other than those in keep are the same in a and b.
SameBut(a, b, keep) ==
    /\ Len(a) = Len(b)
    /\ \A i \in Indices(a) \ keep : a[i] = b[i]

\* C20: a CANCEL decision carrying a broker order id.  When no statement of
\* its processing raises: the order, open at the broker, is cancelled there,
\* the Order record with that broker id has status cancelled, the referenced
\* Trade is CANCELLED with exit reason CANCELLED, the decision is executed, and
\* no other order, record or trade changes.  When the broker's cancel call
\* fails: nothing changes at the broker or in the Order, Trade, position and
\* decision records, and the decision is executed = false when the run ends.
C20_CancelReferencedOrder ==
    \A c \in ExecutorRunChoices :
        LET found == DecisionsToExecute(decisions)
            w == ExecutorRunWith(c)
        IN
        \A k \in Indices(found) :
            LET d == found[k]
                o == decisions[d].existing_order_id
                t == decisions[d].existing_trade_journal_id
                before == ExecutorRunUpTo(c, k - 1)
                after == ExecutorRunUpTo(c, k)
                rows == {i \in Indices(before.ord) : before.ord[i].alpaca_order_id = o}
            IN
            (decisions[d].action = "CANCEL" /\ o # NULL) =>
                /\ Kinds(w.log[k]) # {}
                /\ ~Failed(w.log[k]) =>
                      /\ BrokerOpen(before.brk, o)
                      /\ after.brk[o].status = "canceled"
                      /\ SameBut(before.brk, after.brk, {o})
                      /\ rows # {}
                      /\ \A i \in rows : after.ord[i].order_status = "cancelled"
                      /\ SameBut(before.ord, after.ord, rows)
                      /\ t \in Indices(after.trd)
                      /\ after.trd[t].status = "CANCELLED"
                      /\ after.trd[t].exit_reason = "CANCELLED"
                      /\ SameBut(before.trd, after.trd, {t})
                      /\ after.dec[d].executed
                      /\ w.dec[d].executed
                /\ "cancel_fail" \in Kinds(w.log[k]) =>
                      /\ after.brk = before.brk
                      /\ after.ord = before.ord
                      /\ after.trd = before.trd
                      /\ after.pos = before.pos
                      /\ after.dec = before.dec
                      /\ ~w.dec[d].executed

\* A CANCEL decision was executed: its order cancelled at the broker by the
\* call made for it, the Order record cancelled, the Trade CANCELLED.
C20_Witness ==
    \E d \in Indices(decisions) :
        LET o == decisions[d].existing_order_id
            t == decisions[d].existing_trade_journal_id
        IN
        /\ decisions[d].action = "CANCEL"
        /\ o # NULL
        /\ decisions[d].executed
        /\ <<o, d, TRUE>> \in audit.cancels
        /\ alpaca[o].status = "canceled"
        /\ \E i \in Indices(orders) :
              orders[i].alpaca_order_id = o /\ orders[i].order_status = "cancelled"
        /\ trades[t].status = "CANCELLED"
        /\ trades[t].exit_reason = "CANCELLED"

\* C21: an AMEND decision carrying a broker order id and valid new parameters,
\* no statement of its processing raising: the old order, open at the broker,
\* is cancelled there and its Order record is cancelled; the old Trade is the
\* record it was, now CANCELLED with exit reason CANCELLED; one Trade is added,
\* ORDERED and planned from the decision's parameters; one broker order and one
\* ENTRY Order record are added, for that Trade and with the decision's side,
\* quantity and limit price; nothing else changes; the decision is executed
\* when the run ends.
C21_AmendReplacesTheOrder ==
    \A c \in ExecutorRunChoices :
        LET found == DecisionsToExecute(decisions)
            w == ExecutorRunWith(c)
        IN
        \A k \in Indices(found) :
            LET d == found[k]
                dec == decisions[d]
                o == dec.existing_order_id
                t == dec.existing_trade_journal_id
                before == ExecutorRunUpTo(c, k - 1)
                after == ExecutorRunUpTo(c, k)
                rows == {i \in Indices(before.ord) : before.ord[i].alpaca_order_id = o}
                new_broker == Len(before.brk) + 1
                new_trade == Len(before.trd) + 1
                new_order == Len(before.ord) + 1
            IN
            (/\ dec.action = "AMEND"
             /\ o # NULL
             /\ RequiredFieldsPresent(dec)
             /\ ~Failed(w.log[k])) =>
                /\ BrokerOpen(before.brk, o)
                /\ after.brk[o].status = "canceled"
                /\ rows # {}
                /\ \A i \in rows : after.ord[i] = [before.ord[i] EXCEPT !.order_status = "cancelled"]
                /\ after.trd[t] = [before.trd[t] EXCEPT !.status = "CANCELLED",
                                                        !.exit_date = 1,
                                                        !.exit_reason = "CANCELLED"]
                /\ Len(after.trd) = new_trade
                /\ after.trd[new_trade] = NewTradeRow(d, dec)
                /\ after.trd[new_trade].status = "ORDERED"
                /\ \A i \in Indices(before.trd) \ {t} : after.trd[i] = before.trd[i]
                /\ Len(after.brk) = new_broker
                /\ after.brk[new_broker].status = "new"
                /\ after.brk[new_broker].role = "ENTRY"
                /\ after.brk[new_broker].side = dec.side
                /\ after.brk[new_broker].qty = dec.qty
                /\ after.brk[new_broker].limit_price = dec.limit_price
                /\ \A i \in Indices(before.brk) \ {o} : after.brk[i] = before.brk[i]
                /\ Len(after.ord) = new_order
                /\ after.ord[new_order] = EntryOrderRow(d, dec, new_trade, new_broker)
                /\ \A i \in Indices(before.ord) \ rows : after.ord[i] = before.ord[i]
                /\ after.pos = before.pos
                /\ after.dec[d].executed
                /\ w.dec[d].executed

\* An AMEND decision was executed: the cancel call made for it succeeded, the
\* Trade of the order it referred to is CANCELLED, and the Trade made for it is
\* ORDERED with its one pending ENTRY Order.
C21_Witness ==
    \E d \in Indices(decisions) :
        /\ decisions[d].action = "AMEND"
        /\ decisions[d].executed
        /\ \E x \in audit.cancels :
              /\ x[2] = d
              /\ x[3]
              /\ alpaca[x[1]].status = "canceled"
              /\ \E i \in Indices(orders) :
                    /\ orders[i].alpaca_order_id = x[1]
                    /\ orders[i].order_status = "cancelled"
                    /\ trades[orders[i].trade_journal_id].status = "CANCELLED"
        /\ \E t \in TradesOf(d) :
              /\ trades[t].status = "ORDERED"
              /\ Cardinality(OrdersOf(t, "ENTRY")) = 1

\* What the store and the broker hold for decision d: its row and the history
\* of its flag, the broker orders submitted and the cancel calls made for it,
\* its Trades and its Order records.
FootprintOf(w, d) ==
    [row |-> w.dec[d],
     flag |-> w.hist[d],
     submitted |-> {b \in Indices(w.brk) : w.brk[b].decision = d},
     cancels |-> {x \in w.aud.cancels : x[2] = d},
     trades |-> {t \in Indices(w.trd) : w.trd[t].initial_analysis_id = d},
     orders |-> {o \in Indices(w.ord) : w.ord[o].analysis_decision_id = d}]

\* C22: a run of the Decision Executor processes a decision, once, if and only
\* if it is approved, not executed, and its primary_action is NEW_TRADE, CANCEL
\* or AMEND; for every other decision the run makes no broker call and no store
\* change: its row (the executed flag with it), its broker orders, its cancel
\* calls, its Trades and its Order records are after the run what they were.
C22_OnlyEligibleProcessed ==
    \A c \in ExecutorRunChoices :
        LET w == ExecutorRunWith(c)
            start == World("executor")
            processed == {w.log[k].item : k \in Indices(w.log)}
        IN
        /\ Len(w.log) = Cardinality(processed)
        /\ \A d \in Indices(decisions) :
              LET due == /\ decisions[d].approved
                         /\ ~decisions[d].executed
                         /\ decisions[d].action \in {"NEW_TRADE", "CANCEL", "AMEND"}
              IN
              /\ d \in processed <=> due
              /\ ~due => FootprintOf(w, d) = FootprintOf(start, d)
        /\ processed = {} => /\ w.brk = start.brk
                             /\ w.dec = start.dec
                             /\ w.trd = start.trd
                             /\ w.ord = start.ord
                             /\ w.pos = start.pos

\* A run executed a NEW_TRADE decision and left alone an approved HOLD and an
\* unapproved NEW_TRADE, both carrying valid parameters.
C22_Witness ==
    \E d1 \in Indices(decisions), d2 \in Indices(decisions), d3 \in Indices(decisions) :
        /\ decisions[d1].action = "NEW_TRADE"
        /\ decisions[d1].executed
        /\ TradesOf(d1) # {}
        /\ decisions[d2].action = "HOLD"
        /\ decisions[d2].approved
        /\ RequiredFieldsPresent(decisions[d2])
        /\ ~decisions[d2].executed
        /\ decisions[d3].action = "NEW_TRADE"
        /\ ~decisions[d3].approved
        /\ ~decisions[d3].executed
        /\ EntrySubmissionsOf(d2) \cup EntrySubmissionsOf(d3) = {}
        /\ TradesOf(d2) \cup TradesOf(d3) = {}

LiveStatuses == {"pending", "partially_filled"}

LiveOrdersOf(t, type) ==
    {o \in OrdersOf(t, type) : orders[o].order_status \in LiveStatuses}

\* C23: in every state each Trade has at most one ENTRY Order record, at most
\* one STOP_LOSS Order record whose status is pending or partially_filled, and
\* at most one such TAKE_PROFIT Order record.
C23_OneOrderOfEachKind ==
    \A t \in Indices(trades) :
        /\ Cardinality(OrdersOf(t, "ENTRY")) <= 1
        /\ Cardinality(LiveOrdersOf(t, "STOP_LOSS")) <= 1
        /\ Cardinality(LiveOrdersOf(t, "TAKE_PROFIT")) <= 1

\* A Trade with its ENTRY Order, a live STOP_LOSS and a live TAKE_PROFIT.
C23_Witness ==
    \E t \in Indices(trades) :
        /\ Cardinality(OrdersOf(t, "ENTRY")) = 1
        /\ Cardinality(LiveOrdersOf(t, "STOP_LOSS")) = 1
        /\ Cardinality(LiveOrdersOf(t, "TAKE_PROFIT")) = 1

LocalStatuses == {"pending", "partially_filled", "filled", "cancelled"}

\* C24: after any sync of the Order Reconciler every Order record's status is
\* one of pending, partially_filled, filled and cancelled, whatever status the
\* broker returned for the order.
C24_LocalVocabulary ==
    \A o \in Indices(orders) : orders[o].order_status \in LocalStatuses

\* The run of the Order Reconciler from the current state in which statement
\* c.failAt of its item c.k raises (c.k = 0: none), and the same run up to and
\* including its item k.
MonitorRunUpTo(c, k) ==
    OrderMonitorLoop(World("order_monitor"), SubSeq(OrdersToMonitor(orders), 1, k),
                     c.k, c.failAt)

MonitorRunWith(c) == MonitorRunUpTo(c, Len(OrdersToMonitor(orders)))

MonitorRunChoices == RunChoices(MonitorRunWith([k |-> 0, failAt |-> NULL]).log)

\* C25: when the Order Reconciler syncs an ENTRY order that the broker reports
\* filled, and the UPDATE of the Trade and the INSERT of the Position are made:
\* the Trade, which was ORDERED, is in POSITION with the fill's price as its
\* actual entry and the fill's quantity as its actual quantity, and the Trade,
\* which had no Position, has one: average entry and mark price the fill price,
\* cost basis and market value the fill price times the filled quantity,
\* unrealized P&L 0, and no protective order linked beyond those this sync
\* placed; whatever fails later in the same sync leaves both as they are.
C25_EntryFillOpensPosition ==
    \A c \in MonitorRunChoices :
        LET found == OrdersToMonitor(orders)
            w == MonitorRunWith(c)
        IN
        \A k \in Indices(found) :
            LET o == found[k]
                ao == alpaca[orders[o].alpaca_order_id]
                t == orders[o].trade_journal_id
                ev == w.log[k].ev
                before == MonitorRunUpTo(c, k - 1)
                after == MonitorRunUpTo(c, k)
                had == {i \in Indices(before.pos) : before.pos[i].trade_journal_id = t}
                has == {i \in Indices(after.pos) : after.pos[i].trade_journal_id = t}
            IN
            (/\ orders[o].order_type = "ENTRY"
             /\ ao.status = "filled"
             /\ Len(ev) >= 4
             /\ ev[2] = <<"w_order_sync", o>>
             /\ ev[3] = <<"w_trade", t>>
             /\ ev[4] = <<"w_position", t>>) =>
                /\ after.ord[o].order_status = "filled"
                /\ before.trd[t].status = "ORDERED"
                /\ after.trd[t] = [before.trd[t] EXCEPT
                                      !.status = "POSITION",
                                      !.actual_entry = ao.filled_avg_price,
                                      !.actual_qty = ao.filled_qty]
                /\ had = {}
                /\ Cardinality(has) = 1
                /\ \A i \in has :
                      /\ after.pos[i].symbol = ao.symbol
                      /\ after.pos[i].qty = ao.filled_qty
                      /\ after.pos[i].avg_entry_price = ao.filled_avg_price
                      /\ after.pos[i].current_price = ao.filled_avg_price
                      /\ after.pos[i].cost_basis = ao.filled_avg_price * ao.filled_qty
                      /\ after.pos[i].market_value = ao.filled_avg_price * ao.filled_qty
                      /\ after.pos[i].unrealized_pnl = 0
                /\ Len(after.pos) = Len(before.pos) + 1
                /\ {w.pos[i] : i \in {j \in Indices(w.pos) : w.pos[j].trade_journal_id = t}}
                       = {after.pos[i] : i \in has}
                /\ w.trd[t] = after.trd[t]

\* The fill of an ENTRY order was observed: the order is recorded filled, the
\* Trade is in POSITION at the fill's price and quantity and has its Position,
\* valued at the fill.
C25_Witness ==
    \E o \in Indices(orders) :
        LET t == orders[o].trade_journal_id
            ao == alpaca[orders[o].alpaca_order_id]
        IN
        /\ orders[o].order_type = "ENTRY"
        /\ orders[o].order_status = "filled"
        /\ trades[t].status = "POSITION"
        /\ trades[t].actual_entry = ao.filled_avg_price
        /\ trades[t].actual_qty = ao.filled_qty
        /\ \E i \in PositionsOf(t) :
              /\ positions[i].cost_basis = ao.filled_avg_price * ao.filled_qty
              /\ positions[i].current_price = ao.filled_avg_price
              /\ positions[i].unrealized_pnl = 0

\* The run of the Position Reconciler from the current state with the given
\* quotes, in which statement c.failAt of its item c.k raises (c.k = 0: none).
PositionRunWith(quotes, c) ==
    PositionMonitorLoop(SeqOfSet(PositionIds(positions)), c.k, c.failAt, quotes)

PositionRunChoices(quotes) ==
    RunChoices(PositionRunWith(quotes, [k |-> 0, failAt |-> NULL]).log)

\* The items of a run's log that a handler processed.
ItemsOf(log, handler) ==
    {log[k].item : k \in {j \in Indices(log) : log[j].handler = handler}}

\* C26: in a run of the Position Reconciler a Position is reconciled if and
\* only if get_all_positions returned in that run and the list it returned does
\* not hold the Position's symbol.  A Position that is not reconciled (its
\* symbol is listed, or the call failed) keeps its record, identity and Trade
\* unchanged, its Trade is as it was (in POSITION if it was), and when no
\* Position is reconciled no Trade changes and nothing changes at the broker.
C26_ReconciledIffVanished ==
    \A quotes \in [Symbols -> Quotes] :
        \A c \in PositionRunChoices(quotes) :
            LET w == PositionRunWith(quotes, c)
                fetched == \E k \in Indices(w.log) :
                               /\ w.log[k].handler = "get_all_positions"
                               /\ w.log[k].ev = <<<<"positions", NULL>>>>
                reconciled == ItemsOf(w.log, "reconcile_closed_position")
            IN
            /\ \A i \in Indices(positions) :
                  LET p == positions[i]
                      t == p.trade_journal_id
                  IN
                  /\ p.id \in reconciled <=> (fetched /\ p.symbol \notin held)
                  /\ p.id \notin reconciled =>
                        /\ p.id \in PositionIds(w.pos)
                        /\ PositionById(w.pos, p.id).trade_journal_id = t
                        /\ PositionById(w.pos, p.id).symbol = p.symbol
                        /\ PositionById(w.pos, p.id).qty = p.qty
                        /\ PositionById(w.pos, p.id).avg_entry_price = p.avg_entry_price
                        /\ (\A j \in Indices(positions) :
                               positions[j].trade_journal_id = t
                                   => positions[j].id \notin reconciled)
                               => w.trd[t] = trades[t]
            /\ reconciled = {} =>
                  /\ w.trd = trades
                  /\ w.brk = alpaca
                  /\ w.ord = orders
                  /\ Len(w.pos) = Len(positions)

\* A run that failed somewhere found the Position's symbol in the broker's list:
\* the Position is in the store and its Trade is in POSITION.
C26_Witness ==
    /\ faults = 1
    /\ held = {"AAPL"}
    /\ \E i \in Indices(positions) :
          /\ positions[i].symbol = "AAPL"
          /\ trades[positions[i].trade_journal_id].status = "POSITION"
    /\ audit.reconciled = {}

\* C27: when the Position Reconciler reconciles a vanished position and neither
\* of its two store writes raises: the Trade is CLOSED with exit date, exit
\* price and exit reason set, the Position record is deleted, and for every
\* STOP_LOSS or TAKE_PROFIT Order record of the Trade that is pending a cancel
\* call was made at the broker, whether or not an earlier cancel call failed;
\* and every vanished position of the run is reconciled, whatever failed in the
\* reconciliation of another.
C27_CloseSurvivesFailedCancel ==
    \A quotes \in [Symbols -> Quotes] :
        \A c \in PositionRunChoices(quotes) :
            LET w == PositionRunWith(quotes, c)
                fetched == \E k \in Indices(w.log) :
                               /\ w.log[k].handler = "get_all_positions"
                               /\ w.log[k].ev = <<<<"positions", NULL>>>>
            IN
            /\ fetched =>
                  ItemsOf(w.log, "reconcile_closed_position")
                      = {positions[i].id : i \in {j \in Indices(positions) :
                                                     positions[j].symbol \notin held}}
            /\ \A k \in Indices(w.log) :
                  LET ev == w.log[k].ev
                      id == w.log[k].item
                      t == PositionById(positions, id).trade_journal_id
                      called == {ev[i][2] : i \in {j \in Indices(ev) :
                                                      ev[j][1] \in {"cancel", "cancel_fail"}}}
                  IN
                  (/\ w.log[k].handler = "reconcile_closed_position"
                   /\ "w_fail" \notin Kinds(w.log[k])) =>
                      /\ w.trd[t].status = "CLOSED"
                      /\ w.trd[t].exit_date # NULL
                      /\ w.trd[t].exit_price # NULL
                      /\ w.trd[t].exit_reason \in {"STOPPED_OUT", "TARGET_HIT", "MANUAL_EXIT"}
                      /\ <<t, "position_monitor">> \in w.aud.closed_by
                      /\ id \notin PositionIds(w.pos)
                      /\ called = {orders[o].alpaca_order_id :
                                      o \in {i \in OrdersOf(t, "STOP_LOSS")
                                                     \cup OrdersOf(t, "TAKE_PROFIT") :
                                                orders[i].order_status = "pending"}}

\* The Position Reconciler closed a Trade and deleted its Position although the
\* cancel of a protective order failed: the order, pending in the store, was
\* not open at the broker (filled or expired there) or the call was made to
\* fail, and the order is not cancelled.
C27_Witness ==
    \E t \in Indices(trades) :
        /\ <<t, "position_monitor">> \in audit.closed_by
        /\ trades[t].status = "CLOSED"
        /\ PositionsOf(t) = {}
        /\ \E o \in OrdersOf(t, "STOP_LOSS") \cup OrdersOf(t, "TAKE_PROFIT") :
              /\ orders[o].order_status = "pending"
              /\ alpaca[orders[o].alpaca_order_id].status # "canceled"

\* The local effects of an entry fill are all in the store w for Trade t: the
\* Trade in POSITION, its one Position, its STOP_LOSS order, and its TAKE_PROFIT
\* order when it plans one.
EntryEffectsComplete(w, t) ==
    LET rows(type) == {o \in Indices(w.ord) :
                          w.ord[o].trade_journal_id = t /\ w.ord[o].order_type = type}
    IN
    /\ w.trd[t].status = "POSITION"
    /\ Cardinality({i \in Indices(w.pos) : w.pos[i].trade_journal_id = t}) = 1
    /\ Cardinality(rows("STOP_LOSS")) = 1
    /\ PlansTakeProfit(w.trd[t]) => Cardinality(rows("TAKE_PROFIT")) = 1

\* C28: when the Order Reconciler has recorded the fill the broker reports for
\* an ENTRY order and the handling of the fill did not persist all its effects
\* (the Trade still open), the next run of the Order Reconciler, in which
\* nothing fails and the broker takes orders, has the order in its work list
\* and leaves the effects complete.
C28_InterruptedFillCompleted ==
    LET next == MonitorRunWith([k |-> 0, failAt |-> NULL])
        todo == OrdersToMonitor(orders)
    IN
    \A o \in Indices(orders) :
        LET t == orders[o].trade_journal_id IN
        (/\ orders[o].order_type = "ENTRY"
         /\ orders[o].order_status = "filled"
         /\ alpaca[orders[o].alpaca_order_id].status = "filled"
         /\ trades[t].status \in {"ORDERED", "POSITION"}
         /\ ~EntryEffectsComplete(World("order_monitor"), t)
         /\ Len(alpaca) + 2 <= MaxBrokerOrders) =>
            /\ \E k \in Indices(todo) : todo[k] = o
            /\ EntryEffectsComplete(next, t)

\* The statements of a log entry that act at the broker, and those that write a
\* Trade, an Order record or a Position.
BrokerActions == {"submit", "submit_fail", "cancel", "cancel_fail"}

StoreWrites ==
    {"w_trade", "w_order", "w_order_sync", "w_order_cancelled", "w_position", "d_position"}

\* In the processing of each item of the log no broker action follows a write.
BrokerFirst(log) ==
    \A k \in Indices(log) :
        \A i \in Indices(log[k].ev), j \in Indices(log[k].ev) :
            (i < j /\ log[k].ev[i][1] \in StoreWrites) =>
                log[k].ev[j][1] \notin BrokerActions

\* C29: in the processing of one item by the Decision Executor, the Order
\* Reconciler or the Position Reconciler every broker action (a submit or a
\* cancel) comes before the step's writes of Trades, Order records and
\* Positions: no such write is made while a broker action of the same step is
\* still to be made.
C29_BrokerBeforeStore ==
    /\ BrokerFirst(ExecutorRunWith([k |-> 0, failAt |-> NULL]).log)
    /\ BrokerFirst(MonitorRunWith([k |-> 0, failAt |-> NULL]).log)
    /\ \A quotes \in [Symbols -> Quotes] :
          BrokerFirst(PositionRunWith(quotes, [k |-> 0, failAt |-> NULL]).log)

\* The Positions of Trade t in a store.
PositionRowsOf(pos, t) ==
    {pos[i] : i \in {j \in Indices(pos) : pos[j].trade_journal_id = t}}

\* C30: when a broker call fails while the Order Reconciler processes an order
\* (get_order_by_id, the submission of the stop-loss or of the take-profit, the
\* cancel of a sibling), the Order record, its Trade and the Trade's Positions
\* are after the processing what they were before it, and the order is in the
\* work list of the next run.
C30_FailedSyncLeavesRecords ==
    \A c \in MonitorRunChoices :
        LET found == OrdersToMonitor(orders)
            w == MonitorRunWith(c)
        IN
        \A k \in Indices(found) :
            LET o == found[k]
                t == orders[o].trade_journal_id
                before == MonitorRunUpTo(c, k - 1)
                after == MonitorRunUpTo(c, k)
                again == OrdersToMonitor(w.ord)
            IN
            Kinds(w.log[k]) \cap {"get_fail", "submit_fail", "cancel_fail"} # {} =>
                /\ after.ord[o] = before.ord[o]
                /\ after.trd[t] = before.trd[t]
                /\ PositionRowsOf(after.pos, t) = PositionRowsOf(before.pos, t)
                /\ \E j \in Indices(again) : again[j] = o

\* C31: when the Order Reconciler syncs an ENTRY order whose broker status maps
\* to cancelled (canceled, expired, rejected) and no statement of the sync
\* raises: a Trade that is ORDERED becomes CANCELLED, nothing else of it
\* changing; for a Trade that is not ORDERED no UPDATE of the Trade is made and
\* the Trade is as it was; no other Trade, no Position and no broker order
\* changes; and the Order record, now cancelled, is in the work list of the
\* next run, where the same holds.
C31_CancelledEntryCancelsOrderedTrade ==
    \A c \in MonitorRunChoices :
        LET found == OrdersToMonitor(orders)
            w == MonitorRunWith(c)
        IN
        \A k \in Indices(found) :
            LET o == found[k]
                ao == alpaca[orders[o].alpaca_order_id]
                t == orders[o].trade_journal_id
                before == MonitorRunUpTo(c, k - 1)
                after == MonitorRunUpTo(c, k)
                again == OrdersToMonitor(w.ord)
            IN
            (/\ orders[o].order_type = "ENTRY"
             /\ ao.status \in {"canceled", "expired", "rejected"}
             /\ Kinds(w.log[k]) \cap {"get_fail", "w_fail"} = {}) =>
                /\ after.ord[o].order_status = "cancelled"
                /\ IF before.trd[t].status = "ORDERED"
                   THEN after.trd[t] = [before.trd[t] EXCEPT !.status = "CANCELLED"]
                   ELSE /\ after.trd[t] = before.trd[t]
                        /\ "w_trade" \notin Kinds(w.log[k])
                /\ \A i \in Indices(before.trd) \ {t} : after.trd[i] = before.trd[i]
                /\ after.pos = before.pos
                /\ after.brk = before.brk
                /\ \E j \in Indices(again) : again[j] = o

\* The Order Reconciler cancelled the Trade of an ENTRY order that the broker
\* cancelled, rejected or let expire: the Order record is cancelled and the
\* Trade, which no CANCEL decision closed, is CANCELLED.
C31_Witness ==
    \E o \in Indices(orders) :
        /\ orders[o].order_type = "ENTRY"
        /\ orders[o].order_status = "cancelled"
        /\ alpaca[orders[o].alpaca_order_id].status \in {"canceled", "expired", "rejected"}
        /\ trades[orders[o].trade_journal_id].status = "CANCELLED"
        /\ trades[orders[o].trade_journal_id].exit_reason = "NONE"

\* The (mapped status, order type) pairs for which sync_order_status calls a
\* handler.
HandledPairs ==
    {<<"filled", "ENTRY">>, <<"filled", "STOP_LOSS">>, <<"filled", "TAKE_PROFIT">>,
     <<"cancelled", "ENTRY">>}

\* C32: when the Order Reconciler syncs an order whose (mapped status, order
\* type) pair is none of filled+ENTRY, filled+STOP_LOSS, filled+TAKE_PROFIT and
\* cancelled+ENTRY, the only statements are the broker query and the UPDATE of
\* that Order record: its status and fill fields become the broker's, and no
\* other field of it, no other Order record, no Decision, Trade or Position
\* and no broker order changes.
C32_OtherPairsChangeOnlyTheOrder ==
    \A c \in MonitorRunChoices :
        LET found == OrdersToMonitor(orders)
            w == MonitorRunWith(c)
        IN
        \A k \in Indices(found) :
            LET o == found[k]
                before == MonitorRunUpTo(c, k - 1)
                ao == before.brk[orders[o].alpaca_order_id]
                after == MonitorRunUpTo(c, k)
            IN
            (/\ <<StatusMap(ao.status), orders[o].order_type>> \notin HandledPairs
             /\ "get_fail" \notin Kinds(w.log[k])) =>
                /\ Kinds(w.log[k]) \subseteq {"get", "w_order_sync", "w_fail"}
                /\ after.dec = before.dec
                /\ after.trd = before.trd
                /\ after.pos = before.pos
                /\ after.brk = before.brk
                /\ \A i \in Indices(before.ord) \ {o} : after.ord[i] = before.ord[i]
                /\ Len(after.ord) = Len(before.ord)
                /\ after.ord[o] =
                       IF "w_fail" \in Kinds(w.log[k]) THEN before.ord[o]
                       ELSE [before.ord[o] EXCEPT
                                !.order_status = StatusMap(ao.status),
                                !.filled_qty = ao.filled_qty,
                                !.filled_avg_price = ao.filled_avg_price,
                                !.filled_at = ao.filled_at]

\* A sync recorded a partial fill of an ENTRY order: the Order record carries
\* the filled quantity while its Trade is ORDERED and has no Position.
C32_Witness ==
    \E o \in Indices(orders) :
        /\ orders[o].order_type = "ENTRY"
        /\ orders[o].order_status = "partially_filled"
        /\ orders[o].filled_qty # NULL
        /\ trades[orders[o].trade_journal_id].status = "ORDERED"
        /\ PositionsOf(orders[o].trade_journal_id) = {}

\* The handler and the item of every entry of a run's log.
Passes(log) == [k \in Indices(log) |-> <<log[k].handler, log[k].item>>]

\* C33: a statement that raises while the Order Reconciler syncs one order or
\* while the Position Reconciler values one position is contained to that
\* item.  Every order of the work list is synced in its turn, and every order
\* but the failing one gets its status from the broker.  Every position is
\* valued in its turn, every position but the failing one with the statements
\* and the result of a run in which nothing raises, the failing one keeping its
\* record; and the reconciliation pass then runs as in that run: the broker's
\* positions are listed and the same positions are reconciled.
C33_FailureContainedToItem ==
    /\ \A c \in MonitorRunChoices :
          LET found == OrdersToMonitor(orders)
              w == MonitorRunWith(c)
          IN
          c.k # 0 =>
              /\ Len(w.log) = Len(found)
              /\ \A k \in Indices(found) :
                    LET o == found[k]
                        before == MonitorRunUpTo(c, k - 1)
                        after == MonitorRunUpTo(c, k)
                    IN
                    /\ Passes(w.log)[k] = <<"sync_order_status", o>>
                    /\ k # c.k =>
                          /\ ~w.log[k].fault
                          /\ w.log[k].ev[1] = <<"get", o>>
                          /\ after.ord[o].order_status =
                                 StatusMap(before.brk[orders[o].alpaca_order_id].status)
    /\ \A quotes \in [Symbols -> Quotes] :
          \A c \in PositionRunChoices(quotes) :
              LET found == SeqOfSet(PositionIds(positions))
                  none == [k |-> 0, failAt |-> NULL]
                  w == PositionRunWith(quotes, c)
                  plain == PositionRunWith(quotes, none)
                  valued == UpdateLoop(World("position_monitor"), found, c.k, c.failAt, quotes)
                  valuedPlain == UpdateLoop(World("position_monitor"), found, 0, NULL, quotes)
              IN
              c.k \in Indices(found) =>
                  /\ Passes(w.log) = Passes(plain.log)
                  /\ \A k \in Indices(found) :
                        /\ Passes(w.log)[k] = <<"update_position", found[k]>>
                        /\ IF k = c.k
                           THEN PositionById(valued.pos, found[k]) =
                                    PositionById(positions, found[k])
                           ELSE /\ w.log[k].ev = plain.log[k].ev
                                /\ PositionById(valued.pos, found[k]) =
                                       PositionById(valuedPlain.pos, found[k])
                  /\ w.log[Len(found) + 1].handler = "get_all_positions"
                  /\ w.log[Len(found) + 1].ev = <<<<"positions", NULL>>>>

\* A run of the Order Reconciler in which a statement raised recorded the
\* broker's fill of one STOP_LOSS order and left the other STOP_LOSS order,
\* filled at the broker too, pending in the store.
C33_Witness ==
    /\ faults = 1
    /\ \E o1 \in Indices(orders), o2 \in Indices(orders) :
          /\ orders[o1].order_type = "STOP_LOSS"
          /\ orders[o2].order_type = "STOP_LOSS"
          /\ orders[o1].order_status = "pending"
          /\ alpaca[orders[o1].alpaca_order_id].status = "filled"
          /\ trades[orders[o1].trade_journal_id].status = "POSITION"
          /\ orders[o2].order_status = "filled"
          /\ trades[orders[o2].trade_journal_id].status = "CLOSED"

C35_OneJobPerInstant == calc.stage = "clock" => Cardinality(calc.started) <= 1

\* C36: when the Order Reconciler's handling of a protective order's fill and
\* the Position Reconciler's reconciliation of the same Trade interleave
\* statement by statement, then once both runs have ended the Trade is CLOSED,
\* no Position refers to it, and its exit reason is the filled order's
\* (STOPPED_OUT or TARGET_HIT), not MANUAL_EXIT.
C36_RaceEndsWithTheOrdersReason ==
    (Racing /\ calc.om.pc = "done" /\ calc.pm.pc = "done") =>
        \A t \in Indices(trades) :
            /\ trades[t].status = "CLOSED"
            /\ PositionsOf(t) = {}
            /\ trades[t].exit_reason # "MANUAL_EXIT"
            /\ \E o \in OrdersOf(t, "STOP_LOSS") \cup OrdersOf(t, "TAKE_PROFIT") :
                  /\ alpaca[orders[o].alpaca_order_id].status = "filled"
                  /\ trades[t].exit_reason = ExitReason(orders[o].order_type)

\* The broker statuses of an order that can still fill: all but the terminal
\* ones.
CanStillFill == AlpacaStatuses \ {"filled", "canceled", "expired", "rejected", "replaced"}

\* C37: an Order record whose broker order can still fill is in a status the
\* Order Reconciler polls, whatever statuses its syncs have observed: the fill,
\* when the broker reports it, is then recorded and handled by the next run.
C37_PolledWhileItCanFill ==
    \A o \in Indices(orders) :
        alpaca[orders[o].alpaca_order_id].status \in CanStillFill =>
            orders[o].order_status \in PolledStatuses

\* C38: a Trade that the Order Reconciler moved to CANCELLED (CANCELLED with no
\* exit reason: a CANCEL or AMEND decision writes one) has an entry order of
\* which the broker filled nothing: no shares are held for a CANCELLED Trade
\* that has no Position and no stop-loss.
C38_CancelledOnlyWhenNothingFilled ==
    \A o \in Indices(orders) :
        LET t == orders[o].trade_journal_id IN
        (/\ orders[o].order_type = "ENTRY"
         /\ orders[o].order_status = "cancelled"
         /\ trades[t].status = "CANCELLED"
         /\ trades[t].exit_reason = "NONE") =>
            alpaca[orders[o].alpaca_order_id].filled_qty = 0

\* C39: every STOP_LOSS and TAKE_PROFIT order placed on an entry fill has, in
\* the store and at the broker, the side opposite to the side of the Trade's
\* entry order.
C39_ProtectiveOppositeToEntry ==
    \A o \in Indices(orders) :
        orders[o].order_type \in Protective =>
            \A e \in OrdersOf(orders[o].trade_journal_id, "ENTRY") :
                /\ orders[o].side # orders[e].side
                /\ alpaca[orders[o].alpaca_order_id].side #
                       alpaca[orders[e].alpaca_order_id].side

\* C40: when the Decision Executor processes an AMEND decision whose new-trade
\* parameters fail validation, and no statement raises, the decision is skipped
\* as a whole: no broker order is cancelled or submitted, no Trade and no Order
\* record changes, and the decision is left executed = false.
C40_InvalidAmendSkipped ==
    LET c == [k |-> 0, failAt |-> NULL]
        found == DecisionsToExecute(decisions)
    IN  \A k \in Indices(found) :
            LET d == found[k]
                before == ExecutorRunUpTo(c, k - 1)
                after == ExecutorRunUpTo(c, k)
            IN
            (/\ decisions[d].action = "AMEND"
             /\ ~RequiredFieldsPresent(decisions[d])) =>
                /\ after.brk = before.brk
                /\ after.trd = before.trd
                /\ after.ord = before.ord
                /\ ~after.dec[d].executed

====
